---- MODULE Spec2Model ----
(***************************************************************************)
(* Verification model of cubes/model.py: the logical model layer of the   *)
(* cubes OLAP framework (Model, Cube, Dimension, Hierarchy, Level,        *)
(* Attribute, DefaultModelProvider, create_dimension).                    *)
(*                                                                         *)
(* The module holds several specifications over one set of variables.     *)
(* Each specification drives one part of the program and keeps the        *)
(* variables of the other parts at their initial value:                   *)
(*   Spec       Model / Cube registration of dimensions and cubes          *)
(*   SpecHier   Hierarchy navigation and Dimension default hierarchy       *)
(*   SpecProv   DefaultModelProvider.cube: merge of model and cube metadata*)
(*   SpecDim    create_dimension on a batch of definitions, with templates *)
(*   SpecFlat   create_dimension on a definition without template and levels*)
(*   SpecLoc    Model.localize on a model with one cube and one dimension  *)
(*   SpecRef    Attribute.ref                                              *)
(*   SpecAgg    aggregate_ref and split_aggregate_ref                      *)
(*   SpecValid  Model.validate and Model.is_valid                           *)
(*   SpecCube   Cube.__init__ and Cube.validate                             *)
(*   SpecNav    Hierarchy.levels_for_depth, next_level and previous_level   *)
(*   SpecOwn    Dimension.__init__ on Level objects, ownership, validate    *)
(***************************************************************************)
EXTENDS Integers, Sequences, FiniteSets, TLC

VARIABLES
    mdims,    \* Model._dimensions: the registered Dimension objects (one per name)
    mcubes,   \* Model.cubes: the registered Cube objects
    cdims,    \* Cube._dimensions of every cube object: Dimension objects, insertion order
    last,     \* the last call made on the registry and its outcome
    hobj,     \* the Hierarchy or Dimension object under navigation
    hargs,    \* the arguments of the call to make on hobj
    hcall,    \* the call made on hobj and its outcome
    pmeta,    \* DefaultModelProvider.metadata: the model-wide entries
    pmeta0,   \* the model-wide entries as they were given to the constructor
    pcubes,   \* DefaultModelProvider.cubes_metadata: cube name -> cube record
    pcall,    \* the last call of DefaultModelProvider.cube and its outcome
    dmeta,    \* the dimension definitions of the batch: name -> metadata
    dheap,    \* the Attribute, Level, Hierarchy and Dimension objects created so far
    dpool,    \* the pool of built dimensions passed to create_dimension: name -> object
    dcall,    \* the last call of create_dimension, or the last change of a label
    nmut      \* the number of label or description changes made

regVars == <<mdims, mcubes, cdims, last>>

hierVars == <<hobj, hargs, hcall>>

provVars == <<pmeta, pmeta0, pcubes, pcall>>

dimVars == <<dmeta, dheap, dpool, dcall, nmut>>

vars == <<mdims, mcubes, cdims, last, hobj, hargs, hcall, pmeta, pmeta0, pcubes, pcall,
          dmeta, dheap, dpool, dcall, nmut>>

\* Python's None, and the truth value of a string or None
None == "<None>"

Truthy(x) == x # None /\ x # ""

(***************************************************************************)
(* Part 1.  Model and Cube registries.                                     *)
(*                                                                         *)
(* A Dimension object is an identifier 1..MaxDims.  Objects 1, 2 and 3 are *)
(* named "date", the others "product".  Objects 1 and 2 have the same      *)
(* level composition (two equal, but not identical, dimensions); object 3  *)
(* has another composition under the same name.                            *)
(***************************************************************************)
MaxDims == 4

DimIds == 1..MaxDims

DimNameOf(d) == IF d <= 3 THEN "date" ELSE "product"

DimLevelsOf(d) == (d + 1) \div 2

CubeIds == {"sales"}

\* Dimension.__eq__ restricted to what distinguishes the objects of DimIds
DimEq(d, e) == DimNameOf(d) = DimNameOf(e) /\ DimLevelsOf(d) = DimLevelsOf(e)

\* the names registered in a collection of dimension objects
NamesOf(ds) == {DimNameOf(d) : d \in ds}

SeqRange(s) == {s[i] : i \in 1..Len(s)}

NoCall == [op |-> "init", cube |-> "", dim |-> 0, raised |-> FALSE]

RegInit ==
    /\ mdims = {}
    /\ mcubes = {}
    /\ cdims = [c \in CubeIds |-> <<>>]
    /\ last = NoCall

\* Model.add_dimension as a function of the mapping: the outcome and the new mapping
Model_add_dimension_mutant(dims, d) ==
    [raised |-> FALSE, dims |-> {e \in dims : DimNameOf(e) # DimNameOf(d)} \cup {d}]

Model_add_dimension(dims, d) ==
    IF DimNameOf(d) \in NamesOf(dims)
    THEN [raised |-> TRUE, dims |-> dims]
    ELSE [raised |-> FALSE, dims |-> dims \cup {d}]

\* Model.remove_dimension: del self._dimensions[dimension.name]
Model_remove_dimension(dims, d) ==
    IF DimNameOf(d) \in NamesOf(dims)
    THEN [raised |-> FALSE, dims |-> {e \in dims : DimNameOf(e) # DimNameOf(d)}]
    ELSE [raised |-> TRUE, dims |-> dims]

InMyDimensions_byname(d, my_dimensions) == DimNameOf(d) \in NamesOf(my_dimensions)

\* the test "dimension not in my_dimensions" of add_cube: membership in a set of
\* objects hashed by identity
InMyDimensions(d, my_dimensions) == d \in my_dimensions

\* the loop of Model.add_cube over cube.dimensions[i..], with the two snapshots
\* my_dimensions and my_dimension_names taken before the loop
RECURSIVE add_cube_loop(_, _, _, _, _)
add_cube_loop(cds, i, dims, my_dimensions, my_dimension_names) ==
    IF i > Len(cds) THEN [raised |-> FALSE, dims |-> dims]
    ELSE IF InMyDimensions(cds[i], my_dimensions)
         THEN add_cube_loop(cds, i + 1, dims, my_dimensions, my_dimension_names)
    ELSE IF DimNameOf(cds[i]) \notin my_dimension_names
         THEN LET r == Model_add_dimension(dims, cds[i])
              IN IF r.raised THEN r
                 ELSE add_cube_loop(cds, i + 1, r.dims, my_dimensions, my_dimension_names)
    ELSE [raised |-> TRUE, dims |-> dims]

AddDimension(d) ==
    LET r == Model_add_dimension(mdims, d)
    IN /\ mdims' = r.dims
       /\ last' = [op |-> "Model.add_dimension", cube |-> "", dim |-> d, raised |-> r.raised]
       /\ UNCHANGED <<mcubes, cdims, hierVars, provVars, dimVars>>

RemoveDimension(d) ==
    LET r == Model_remove_dimension(mdims, d)
    IN /\ mdims' = r.dims
       /\ last' = [op |-> "Model.remove_dimension", cube |-> "", dim |-> d, raised |-> r.raised]
       /\ UNCHANGED <<mcubes, cdims, hierVars, provVars, dimVars>>

AddCube(c) ==
    LET r == add_cube_loop(cdims[c], 1, mdims, mdims, NamesOf(mdims))
    IN /\ mdims' = r.dims
       /\ mcubes' = IF r.raised THEN mcubes ELSE mcubes \cup {c}
       /\ last' = [op |-> "Model.add_cube", cube |-> c, dim |-> 0, raised |-> r.raised]
       /\ UNCHANGED <<cdims, hierVars, provVars, dimVars>>

\* Model.remove_cube: del self.cubes[cube.name]
RemoveCube(c) ==
    /\ mcubes' = mcubes \ {c}
    /\ last' = [op |-> "Model.remove_cube", cube |-> c, dim |-> 0, raised |-> c \notin mcubes]
    /\ UNCHANGED <<mdims, cdims, hierVars, provVars, dimVars>>

\* Cube.add_dimension
CubeAddDimension(c, d) ==
    LET dup == DimNameOf(d) \in NamesOf(SeqRange(cdims[c]))
    IN /\ cdims' = IF dup THEN cdims ELSE [cdims EXCEPT ![c] = Append(@, d)]
       /\ last' = [op |-> "Cube.add_dimension", cube |-> c, dim |-> d, raised |-> dup]
       /\ UNCHANGED <<mdims, mcubes, hierVars, provVars, dimVars>>

\* Cube.remove_dimension, called with a Dimension object: removal is by name
CubeRemoveDimension(c, d) ==
    LET has == DimNameOf(d) \in NamesOf(SeqRange(cdims[c]))
    IN /\ cdims' = IF has
                   THEN [cdims EXCEPT ![c] = SelectSeq(@, LAMBDA e : DimNameOf(e) # DimNameOf(d))]
                   ELSE cdims
       /\ last' = [op |-> "Cube.remove_dimension", cube |-> c, dim |-> d, raised |-> ~has]
       /\ UNCHANGED <<mdims, mcubes, hierVars, provVars, dimVars>>

RegNext ==
    \/ \E d \in DimIds : AddDimension(d)
    \/ \E d \in DimIds : RemoveDimension(d)
    \/ \E c \in CubeIds : AddCube(c)
    \/ \E c \in CubeIds : RemoveCube(c)
    \/ \E c \in CubeIds, d \in DimIds : CubeAddDimension(c, d)
    \/ \E c \in CubeIds, d \in DimIds : CubeRemoveDimension(c, d)

(***************************************************************************)
(* Claims about the registries (specification Spec).                       *)
(***************************************************************************)
\* the dimensions of cube c that add_cube has to register: their name is unknown to the model
NewDimsOf(c) == {d \in SeqRange(cdims[c]) : DimNameOf(d) \notin NamesOf(mdims)}

\* cube c carries a dimension whose name the model has registered for a dimension of
\* another level composition
DifferentSpecClash(c) ==
    \E d \in SeqRange(cdims[c]) : \E e \in mdims :
        DimNameOf(d) = DimNameOf(e) /\ ~DimEq(d, e)

\* cube c carries a dimension object that is not registered although its name is
NameClash(c) ==
    \E d \in SeqRange(cdims[c]) : d \notin mdims /\ DimNameOf(d) \in NamesOf(mdims)

\* C1: Model.add_cube(cube) raises when the cube carries a dimension whose name is
\* registered for a dimension of a different level composition; when no dimension of
\* the cube clashes with a registered name it registers every dimension of the cube
\* whose name was not registered, and then the cube; and whenever it returns normally
\* it has done exactly that.
C1_AddCubeRegisters ==
    [][ last'.op = "Model.add_cube" =>
          LET c == last'.cube
          IN /\ DifferentSpecClash(c) => last'.raised
             /\ ~NameClash(c) => ~last'.raised
             /\ ~last'.raised => /\ mdims' = mdims \cup NewDimsOf(c)
                                 /\ mcubes' = mcubes \cup {c} ]_vars

\* C1 witness: add_cube has just raised on a cube carrying a dimension named like a
\* registered dimension of another level composition
C1_Witness ==
    /\ last.op = "Model.add_cube"
    /\ last.raised
    /\ DifferentSpecClash(last.cube)

\* C2 as stated: every dimension attached to a registered cube is registered in the model
C2_Original ==
    \A c \in mcubes : SeqRange(cdims[c]) \subseteq mdims

\* C2 amended: when Model.add_cube returns normally, every dimension attached to the
\* cube it registered is registered in the model's dimension mapping
C2_RegisteredAfterAddCube ==
    [][ (last'.op = "Model.add_cube" /\ ~last'.raised) =>
          /\ last'.cube \in mcubes'
          /\ SeqRange(cdims'[last'.cube]) \subseteq mdims' ]_vars

\* C2 witness: add_cube has just registered a cube that carries dimensions
C2_Witness ==
    /\ last.op = "Model.add_cube"
    /\ ~last.raised
    /\ Len(cdims[last.cube]) = 2
    /\ SeqRange(cdims[last.cube]) \subseteq mdims

MaxPath == 3

LevelNames == {"year", "month", "day"}

PathValues == {"2020", "03", "15"}

HierNames == {"default", "ymd", "ym"}

\* the non-empty sequences without repetition over S
InjSeqs(S) ==
    {q \in UNION {[1..n -> S] : n \in 1..Cardinality(S)} :
        \A i, j \in 1..Len(q) : i # j => q[i] # q[j]}

\* the paths a caller may pass: up to MaxPath values
Paths == UNION {[1..n -> PathValues] : n \in 0..MaxPath}

\* Hierarchy.__init__ with a dimension: _levels is keyed by level name, in order
HierarchyObjects ==
    {[kind |-> "Hierarchy", levels |-> ls] : ls \in InjSeqs(LevelNames)}

\* Dimension.__init__: the hierarchies given, by name, or a single hierarchy "default"
Dimension_hierarchies(given) == IF given = {} THEN {"default"} ELSE given

DimensionObjects ==
    {[kind |-> "Dimension",
      hierarchies |-> Dimension_hierarchies(given),
      nlevels |-> n,
      default_hierarchy_name |-> dn] :
        given \in SUBSET HierNames, n \in 1..2, dn \in HierNames \cup {None, "", "weekly"}}

\* list.index on the level names: the 0-based position, or -1 for ValueError
IndexOf(ls, name) ==
    IF \E i \in 1..Len(ls) : ls[i] = name
    THEN (CHOOSE i \in 1..Len(ls) : ls[i] = name /\ \A j \in 1..(i - 1) : ls[j] # name) - 1
    ELSE -1

\* Python's path[0:last] for any integer last
Slice0(path, n) ==
    LET l == Len(path)
        e0 == IF n < 0 THEN n + l ELSE n
        e == IF e0 < 0 THEN 0 ELSE IF e0 > l THEN l ELSE e0
    IN SubSeq(path, 1, e)

Returned(v) == [raised |-> "", value |-> v]

Raised(e) == [raised |-> e, value |-> None]

\* Hierarchy.level_index
level_index(ls, level) ==
    IF IndexOf(ls, level) = -1 THEN Raised("HierarchyError") ELSE Returned(IndexOf(ls, level))

\* rollup, branch "if level": the end of the slice
rollup_last_named_excl(ls, level) == level_index(ls, level).value

rollup_last_named(ls, level) == level_index(ls, level).value + 1

\* rollup, branch "if level": the depth test
rollup_too_deep_offbyone(lastv, path) == lastv >= Len(path)

rollup_too_deep(lastv, path) == lastv > Len(path)

\* rollup, branch "else": the end of the slice for a non-empty path
rollup_last_default_whole(path) == Len(path)

rollup_last_default(path) == Len(path) - 1

\* Hierarchy.rollup
rollup(ls, path, level) ==
    IF Truthy(level)
    THEN IF level_index(ls, level).raised # "" THEN level_index(ls, level)
         ELSE IF rollup_too_deep(rollup_last_named(ls, level), path)
              THEN Raised("HierarchyError")
              ELSE Returned(Slice0(path, rollup_last_named(ls, level)))
    ELSE IF Len(path) > 0
         THEN Returned(Slice0(path, rollup_last_default(path)))
         ELSE Returned(<<>>)

\* Dimension._default_hierarchy: the name looked up first
default_lookup_name(dn) == IF Truthy(dn) THEN dn ELSE "default"

\* Dimension._default_hierarchy: what happens when the looked up name is missing
default_fallback_to_default(hs, nlevels) ==
    IF "default" \in hs THEN Returned("default")
    ELSE IF Cardinality(hs) = 1 THEN Returned(CHOOSE h \in hs : TRUE)
    ELSE Raised("ModelError")

default_fallback(hs, nlevels) ==
    IF Cardinality(hs) = 1 THEN Returned(CHOOSE h \in hs : TRUE)
    ELSE IF hs = {}
         THEN IF nlevels = 1 THEN Raised("NameError") ELSE Raised("ModelError")
         ELSE Raised("ModelError")

\* Dimension._default_hierarchy, which Dimension.hierarchy(None) returns
default_hierarchy(hs, nlevels, dn) ==
    IF default_lookup_name(dn) \in hs
    THEN Returned(default_lookup_name(dn))
    ELSE default_fallback(hs, nlevels)

NoArgs == [path |-> <<>>, level |-> None]

HierIdle ==
    /\ hobj = [kind |-> "none"]
    /\ hargs = NoArgs
    /\ hcall = [op |-> "init"]

\* an object and the arguments of one call on it: level is None, "" or a level name
HierInit ==
    /\ \/ /\ hobj \in HierarchyObjects
          /\ hargs \in [path : Paths, level : LevelNames \cup {None, ""}]
       \/ /\ hobj \in DimensionObjects
          /\ hargs = NoArgs
    /\ hcall = [op |-> "init"]

\* the call Hierarchy.rollup(path, level)
Rollup ==
    /\ hobj.kind = "Hierarchy"
    /\ hcall.op = "init"
    /\ hcall' = [op |-> "rollup", result |-> rollup(hobj.levels, hargs.path, hargs.level)]
    /\ UNCHANGED <<hobj, hargs, regVars, provVars, dimVars>>

\* the call Dimension.hierarchy(None)
DefaultHierarchy ==
    /\ hobj.kind = "Dimension"
    /\ hcall.op = "init"
    /\ hcall' = [op |-> "hierarchy",
                 result |-> default_hierarchy(hobj.hierarchies, hobj.nlevels,
                                              hobj.default_hierarchy_name)]
    /\ UNCHANGED <<hobj, hargs, regVars, provVars, dimVars>>

HierNext ==
    \/ Rollup
    \/ DefaultHierarchy

(***************************************************************************)
(* Part 3.  DefaultModelProvider.cube.                                     *)
(*                                                                         *)
(* A dict is a function from its keys; a list is a sequence.  An optional  *)
(* entry of a metadata dict is Absent (dict.get gives None) or Some(v).    *)
(***************************************************************************)
Absent == [some |-> FALSE, v |-> <<>>]

\* an absent string entry
NoStr == [some |-> FALSE, v |-> ""]

Some(x) == [some |-> TRUE, v |-> x]

\* truth value of an optional dict or list: None, {} and [] are false
NonEmpty(o) == o.some /\ DOMAIN o.v # {}

\* truth value of an optional string
NonEmptyStr(o) == o.some /\ o.v # ""

\* the dict {k: x}
Dict1(k, x) == [i \in {k} |-> x]

\* dict.update
DictUpdate(a, b) ==
    [k \in DOMAIN a \cup DOMAIN b |-> IF k \in DOMAIN b THEN b[k] ELSE a[k]]

\* dict.update(other): None is not iterable
mappings_update(mappings, cube_mappings) ==
    IF cube_mappings.some THEN Returned(Some(DictUpdate(mappings, cube_mappings.v)))
    ELSE Raised("TypeError")

\* "Merge model and cube mappings"
merge_mappings(model_mappings, cube_mappings) ==
    IF NonEmpty(model_mappings)
    THEN mappings_update(model_mappings.v, cube_mappings)
    ELSE Returned(cube_mappings)

\* "merge browser_options": the merged dict; it is the stored model-wide dict itself
\* when the model declares browser_options, a new dict otherwise
merge_browser_options(model_bo, cube_bo) ==
    LET base == IF model_bo.some THEN model_bo.v ELSE <<>>
    IN IF NonEmpty(cube_bo) THEN DictUpdate(base, cube_bo.v) ELSE base

\* "merge datastore from model if datastore not present"
merge_datastore(model_ds, cube_ds) ==
    IF ~NonEmptyStr(cube_ds) THEN model_ds ELSE cube_ds

\* a plausible slip: a repeated name is not noticed
duplicate_join_name_unnoticed(name, jmap) == FALSE

\* "if name in model_join_map"
duplicate_join_name(name, jmap) == name \in DOMAIN jmap

\* model_join_map built from joins[1..n]: the error raised, or the map name -> join
RECURSIVE model_join_map(_, _)
model_join_map(joins, n) ==
    IF n = 0 THEN Returned(<<>>)
    ELSE LET before == model_join_map(joins, n - 1)
         IN IF before.raised # "" THEN before
            ELSE IF "name" \notin DOMAIN joins[n] THEN Raised("ModelError")
            ELSE IF duplicate_join_name(joins[n]["name"], before.value)
            THEN Raised("ModelError")
            ELSE Returned(DictUpdate(before.value, Dict1(joins[n]["name"], joins[n])))

\* join.get('name') as a key of model_join_map, or None
JoinName(join) == IF "name" \in DOMAIN join THEN join["name"] ELSE None

\* the entries of model_join_map after the updates by cube_joins[1..n]: every cube join
\* updates the map's own entry of its name
RECURSIVE updated_join_map(_, _, _)
updated_join_map(jmap, cube_joins, n) ==
    IF n = 0 THEN jmap
    ELSE LET before == updated_join_map(jmap, cube_joins, n - 1)
             nm == JoinName(cube_joins[n])
         IN IF nm \in DOMAIN before
            THEN [before EXCEPT ![nm] = DictUpdate(@, cube_joins[n])]
            ELSE before

\* "Merge cube's joins with model joins by their names": merged_joins holds the map's
\* entry for a matched name and the cube join itself (an empty dict updated) otherwise
merged_joins(jmap, cube_joins) ==
    [i \in 1..Len(cube_joins) |->
        IF JoinName(cube_joins[i]) \in DOMAIN jmap
        THEN updated_join_map(jmap, cube_joins, Len(cube_joins))[JoinName(cube_joins[i])]
        ELSE cube_joins[i]]

merge_joins(model_joins, cube_joins) ==
    IF NonEmpty(cube_joins) /\ NonEmpty(model_joins)
    THEN LET m == model_join_map(model_joins.v, Len(model_joins.v))
         IN IF m.raised # "" THEN Raised(m.raised)
            ELSE Returned(Some(merged_joins(m.value, cube_joins.v)))
    ELSE Returned(cube_joins)

NoCube == [mappings |-> Absent, joins |-> Absent, browser_options |-> <<>>,
           datastore |-> NoStr]

\* DefaultModelProvider.cube(name): the exception raised, the attributes of the Cube
\* returned, and the model-wide browser_options stored afterwards
provider_cube(meta, cubes, name) ==
    IF name \notin DOMAIN cubes
    THEN [raised |-> "ModelError", cube |-> NoCube, browser_options |-> meta.browser_options]
    ELSE LET md == cubes[name]
             maps == merge_mappings(meta.mappings, md.mappings)
             bo == merge_browser_options(meta.browser_options, md.browser_options)
             stored == IF meta.browser_options.some THEN Some(bo) ELSE Absent
             joins == merge_joins(meta.joins, md.joins)
         IN IF maps.raised # ""
            THEN [raised |-> maps.raised, cube |-> NoCube,
                  browser_options |-> meta.browser_options]
            ELSE IF joins.raised # ""
            THEN [raised |-> joins.raised, cube |-> NoCube, browser_options |-> stored]
            ELSE [raised |-> "",
                  cube |-> [mappings |-> maps.value, joins |-> joins.value,
                            browser_options |-> bo,
                            datastore |-> merge_datastore(meta.datastore, md.datastore)],
                  browser_options |-> stored]

ModelMappings == {Absent, Some(<<>>), Some([a |-> "model.a", b |-> "model.b"])}

CubeMappings == {Absent, Some(<<>>), Some([b |-> "cube.b", c |-> "cube.c"])}

ModelBrowserOptions == {Absent, Some(<<>>), Some([x |-> "model"])}

ModelJoins ==
    {Absent,
     Some(<<[name |-> "j1", master |-> "model"]>>),
     Some(<<[master |-> "model"]>>),
     Some(<<[name |-> "j1", master |-> "model", detail |-> "model"],
            [name |-> "j2", master |-> "model"]>>),
     Some(<<[name |-> "j1", master |-> "model"], [name |-> "j1", master |-> "other"]>>)}

CubeJoins ==
    {Absent,
     Some(<<[name |-> "j1", detail |-> "cube"]>>),
     Some(<<[name |-> "j1", detail |-> "cube"], [name |-> "j1", alias |-> "second"]>>),
     Some(<<[name |-> "j3", detail |-> "cube"], [name |-> "j1", master |-> "cube"]>>)}

Datastores == {NoStr, Some("store")}

CubeNames == {"A", "B"}

ProvIdle ==
    /\ pmeta = [mappings |-> Absent, browser_options |-> Absent, joins |-> Absent,
                datastore |-> NoStr]
    /\ pmeta0 = pmeta
    /\ pcubes = <<>>
    /\ pcall = [op |-> "init"]

\* ModelProvider.__init__ on a metadata dict with the cubes A and B
ProvInit ==
    /\ pmeta \in [mappings : ModelMappings, browser_options : ModelBrowserOptions,
                  joins : ModelJoins, datastore : Datastores]
    /\ pmeta0 = pmeta
    /\ \E a \in [mappings : CubeMappings,
                 browser_options : {Absent, Some([x |-> "A", y |-> "A"])},
                 joins : CubeJoins, datastore : Datastores],
          b \in [mappings : {Absent},
                 browser_options : {Absent, Some([z |-> "B"])},
                 joins : {Absent}, datastore : {NoStr}] :
          pcubes = [n \in CubeNames |-> IF n = "A" THEN a ELSE b]
    /\ pcall = [op |-> "init"]

\* a call of DefaultModelProvider.cube(name)
ProviderCube(name) ==
    LET r == provider_cube(pmeta, pcubes, name)
    IN /\ pmeta' = [pmeta EXCEPT !.browser_options = r.browser_options]
       /\ pcall' = [op |-> "cube", name |-> name, raised |-> r.raised, cube |-> r.cube]
       /\ UNCHANGED <<pmeta0, pcubes, regVars, hierVars, dimVars>>

ProvNext ==
    \E name \in CubeNames \cup {"unknown"} : ProviderCube(name)

(***************************************************************************)
(* Part 4.  create_dimension, templates and object identity.               *)
(*                                                                         *)
(* dheap is the sequence of the objects created so far; an object is       *)
(* identified by its position, and 0 stands for None where an object is    *)
(* expected.  A reference list of a Hierarchy holds either level names or  *)
(* Level objects.                                                          *)
(***************************************************************************)
MaxMutations == 1

BatchNames == {"date", "fiscal", "ship"}

\* the level lists a definition may give: none, or bare level names
LevelsMetadata == {<<>>, <<"year", "month">>}

\* the definitions: "date" has no template, the others may name one defined before
Metadata(templates) ==
    [template : templates \cup {None}, levels : LevelsMetadata, hierarchy : {<<>>},
     attributes : {Absent}, key : {None}, label_attribute : {None},
     order_attribute : {None}, default_hierarchy_name : {None}]

\* definitions without template and levels, which give attributes, key, label_attribute
\* and order_attribute of the only level themselves
FlatMetadata ==
    [template : {None}, levels : {<<>>}, hierarchy : {<<>>},
     attributes : {Absent, Some(<<"code", "title">>), Some(<<"product", "title">>)},
     key : {None, "code", "product", "other"},
     label_attribute : {None, "title"},
     order_attribute : {None, "title"}, default_hierarchy_name : {None}]

\* a local variable: the value e is computed once and named in the body F
With(e, F(_)) == CHOOSE r \in {F(x) : x \in {e}} : TRUE

\* Attribute.__init__(name, dimension=dimension)
NewAttribute(name, dimension) ==
    [kind |-> "Attribute", name |-> name, label |-> None, description |-> None,
     dimension |-> dimension]

\* deepcopy of the attribute list attrs[1..n] (Attribute.__deepcopy__): the copies are
\* appended to the heap in order
RECURSIVE copy_attributes(_, _, _)
copy_attributes(h, attrs, n) ==
    IF n = 0 THEN h
    ELSE Append(copy_attributes(h, attrs, n - 1),
                [kind |-> "Attribute", name |-> h[attrs[n]].name,
                 label |-> h[attrs[n]].label, description |-> h[attrs[n]].description,
                 dimension |-> h[attrs[n]].dimension])

\* Level.attribute(name) on a list of attribute objects: the first of that name, or 0
AttributeNamed(h, attrs, name) ==
    IF \E i \in 1..Len(attrs) : h[attrs[i]].name = name
    THEN attrs[CHOOSE i \in 1..Len(attrs) :
                 /\ h[attrs[i]].name = name
                 /\ \A j \in 1..(i - 1) : h[attrs[j]].name # name]
    ELSE 0

\* Level.__deepcopy__: the heap with the copy of level l as its last object
copy_level(h, l) ==
    With(copy_attributes(h, h[l].attributes, Len(h[l].attributes)), LAMBDA h1 :
    LET attrs == [i \in 1..Len(h[l].attributes) |-> Len(h) + i]
    IN Append(h1, [kind |-> "Level", name |-> h[l].name, label |-> h[l].label,
                   description |-> None, attributes |-> attrs,
                   key |-> AttributeNamed(h1, attrs, h[h[l].key].name),
                   label_attribute |->
                       AttributeNamed(h1, attrs, h[h[l].label_attribute].name),
                   order_attribute |->
                       AttributeNamed(h1, attrs, h[h[l].order_attribute].name)]))

\* a plausible slip: the template's levels are taken over, not copied
copy_levels_shared(h, ls, n) == [heap |-> h, ids |-> SubSeq(ls, 1, n)]

\* copy.deepcopy(template.levels), for the levels ls[1..n]
RECURSIVE copy_levels(_, _, _)
copy_levels(h, ls, n) ==
    IF n = 0 THEN [heap |-> h, ids |-> <<>>]
    ELSE With(copy_levels(h, ls, n - 1), LAMBDA before :
         With(copy_level(before.heap, ls[n]), LAMBDA h1 :
              [heap |-> h1, ids |-> Append(before.ids, Len(h1))]))

\* Level(**fix_level_metadata(md)) for a bare level name: one attribute named like the
\* level
new_level(h, name, label) ==
    LET h1 == Append(h, NewAttribute(name, 0))
        a == Len(h1)
    IN Append(h1, [kind |-> "Level", name |-> name, label |-> label,
                   description |-> None, attributes |-> <<a>>,
                   key |-> a, label_attribute |-> a, order_attribute |-> a])

\* the heap with new attributes of the given names appended (attribute_list)
RECURSIVE new_attributes(_, _, _)
new_attributes(h, names, n) ==
    IF n = 0 THEN h
    ELSE Append(new_attributes(h, names, n - 1), NewAttribute(names[n], 0))

\* a plausible slip: Level.__init__ accepts an empty attribute list
no_attributes_accepted(attributes) == FALSE

\* Level.__init__: "if not attributes: raise ModelError"
no_attributes(attributes) == attributes = <<>>

\* level_md["key"] = name: the key the metadata gives is overwritten
flat_level_key(md, name) == name

\* "Create a single level with same properties as the dimension": Level.__init__ on
\* the attributes, label_attribute and order_attribute of the dimension metadata
flat_level(h, name, md, label) ==
    LET names == IF md.attributes.some THEN md.attributes.v ELSE <<name>>
        attrs == [i \in 1..Len(names) |-> Len(h) + i]
    IN IF no_attributes(names) THEN [raised |-> "ModelError", heap |-> h]
       ELSE
       With(new_attributes(h, names, Len(names)), LAMBDA h1 :
       With(AttributeNamed(h1, attrs, flat_level_key(md, name)), LAMBDA key :
       IF key = 0 THEN [raised |-> "NoSuchAttributeError", heap |-> h]
       ELSE
       With(IF md.label_attribute # None
            THEN AttributeNamed(h1, attrs, md.label_attribute)
            ELSE IF Len(attrs) > 1 THEN attrs[2] ELSE key, LAMBDA label_attribute :
       With(IF md.order_attribute # None
            THEN AttributeNamed(h1, attrs, md.order_attribute)
            ELSE attrs[1], LAMBDA order_attribute :
            IF label_attribute = 0 \/ order_attribute = 0
            THEN [raised |-> "NoSuchAttributeError", heap |-> h]
            ELSE [raised |-> "",
                  heap |-> Append(h1, [kind |-> "Level", name |-> name, label |-> label,
                                       description |-> None, attributes |-> attrs,
                                       key |-> key, label_attribute |-> label_attribute,
                                       order_attribute |-> order_attribute])]))))

RECURSIVE new_levels(_, _, _)
new_levels(h, names, n) ==
    IF n = 0 THEN [heap |-> h, ids |-> <<>>]
    ELSE With(new_levels(h, names, n - 1), LAMBDA before :
         With(new_level(before.heap, names[n], None), LAMBDA h1 :
              [heap |-> h1, ids |-> Append(before.ids, Len(h1))]))

\* the level of that name among the level objects ls, or 0
LevelNamed(h, ls, name) ==
    IF \E i \in 1..Len(ls) : h[ls[i]].name = name
    THEN ls[CHOOSE i \in 1..Len(ls) : h[ls[i]].name = name]
    ELSE 0

ByName(names) == [byname |-> TRUE, names |-> names, objs |-> <<>>]

ByObject(ls) == [byname |-> FALSE, names |-> <<>>, objs |-> ls]

\* Hierarchy.levels: _set_levels resolves every reference with Dimension.level, which
\* looks a name up in the dimension's levels and returns a Level object as it is
hierarchy_levels(h, hier) ==
    LET refs == h[hier].refs
        dlevels == h[h[hier].dimension].levels
    IN IF refs.byname
       THEN IF refs.names = <<>> THEN [raised |-> "ModelInconsistencyError", ids |-> <<>>]
            ELSE IF \E i \in 1..Len(refs.names) : LevelNamed(h, dlevels, refs.names[i]) = 0
            THEN [raised |-> "KeyError", ids |-> <<>>]
            ELSE [raised |-> "",
                  ids |-> [i \in 1..Len(refs.names) |-> LevelNamed(h, dlevels, refs.names[i])]]
       ELSE IF refs.objs = <<>> THEN [raised |-> "ModelInconsistencyError", ids |-> <<>>]
            ELSE [raised |-> "", ids |-> refs.objs]

NewHierarchy(name, refs, label) ==
    [kind |-> "Hierarchy", name |-> name, label |-> label, description |-> None,
     refs |-> refs, dimension |-> 0]

\* "Create copy of template's hierarchies, but reference newly created copies of level
\* objects": the copies of hiers[1..n], with level_dict the copied levels by name
RECURSIVE copy_hierarchies(_, _, _, _)
copy_hierarchies(h, hiers, n, levels) ==
    IF n = 0 THEN [raised |-> "", heap |-> h, ids |-> <<>>]
    ELSE With(copy_hierarchies(h, hiers, n - 1, levels), LAMBDA before :
         With(hierarchy_levels(h, hiers[n]), LAMBDA hl :
            IF before.raised # "" THEN before
            ELSE IF hl.raised # "" THEN [raised |-> hl.raised, heap |-> h, ids |-> <<>>]
            ELSE IF \E i \in 1..Len(hl.ids) : LevelNamed(h, levels, h[hl.ids[i]].name) = 0
            THEN [raised |-> "KeyError", heap |-> h, ids |-> <<>>]
            ELSE LET hier_levels == [i \in 1..Len(hl.ids) |->
                                        LevelNamed(h, levels, h[hl.ids[i]].name)]
                 IN [raised |-> "",
                     heap |-> Append(before.heap,
                                     NewHierarchy(h[hiers[n]].name, ByObject(hier_levels),
                                                  h[hiers[n]].label)),
                     ids |-> Append(before.ids, Len(before.heap) + 1)]))

\* all attribute objects of the levels ls, and Dimension._attributes: for every
\* attribute name the last attribute of that name
AttributesOf(h, ls) ==
    UNION {{h[ls[i]].attributes[j] : j \in 1..Len(h[ls[i]].attributes)} : i \in 1..Len(ls)}

dimension_attributes(h, ls) ==
    {a \in AttributesOf(h, ls) :
        \A b \in AttributesOf(h, ls) : h[b].name = h[a].name => b <= a}

\* Dimension.__init__: the heap with the new Dimension as its last object
Dimension_init(h, name, levels, hierarchies, default_hierarchy_name, label) ==
    IF levels = <<>> THEN [raised |-> "ModelError", heap |-> h, dim |-> 0]
    ELSE With(IF hierarchies # <<>> THEN h
              ELSE Append(h, NewHierarchy("default", ByObject(levels), None)), LAMBDA h1 :
         With(IF hierarchies # <<>> THEN hierarchies ELSE <<Len(h1)>>, LAMBDA hiers :
         With(dimension_attributes(h1, levels) \cup SeqRange(hiers), LAMBDA owned :
              [raised |-> "",
               heap |-> Append([i \in 1..Len(h1) |->
                                   IF i \in owned
                                   THEN [h1[i] EXCEPT !.dimension = Len(h1) + 1]
                                   ELSE h1[i]],
                               [kind |-> "Dimension", name |-> name, label |-> label,
                                description |-> None, levels |-> levels,
                                hierarchies |-> hiers,
                                default_hierarchy_name |-> default_hierarchy_name]),
               dim |-> Len(h1) + 1])))

\* create_dimension, the template part: levels, hierarchies and the inherited values
from_template(h, pool, md) ==
    IF md.template = None
    THEN [raised |-> "", heap |-> h, levels |-> <<>>, hierarchies |-> <<>>,
          default_hierarchy_name |-> None, label |-> None]
    ELSE IF pool[md.template] = 0
    THEN [raised |-> "TemplateRequired", heap |-> h, levels |-> <<>>,
          hierarchies |-> <<>>, default_hierarchy_name |-> None, label |-> None]
    ELSE With(pool[md.template], LAMBDA template :
         With(copy_levels(h, h[template].levels, Len(h[template].levels)), LAMBDA levels :
         With(copy_hierarchies(levels.heap, h[template].hierarchies,
                               Len(h[template].hierarchies), levels.ids), LAMBDA hierarchies :
              [raised |-> hierarchies.raised, heap |-> hierarchies.heap,
               levels |-> levels.ids, hierarchies |-> hierarchies.ids,
               default_hierarchy_name |-> h[template].default_hierarchy_name,
               label |-> h[template].label])))

\* create_dimension(metadata, dimensions, name)
create_dimension(h, pool, md, name) ==
    With(from_template(h, pool, md), LAMBDA t :
    IF t.raised = "TemplateRequired"
    THEN [raised |-> t.raised, arg |-> md.template, heap |-> h, dim |-> 0]
    ELSE IF t.raised # "" THEN [raised |-> t.raised, arg |-> None, heap |-> h, dim |-> 0]
    ELSE
    With(IF md.levels # <<>> THEN new_levels(t.heap, md.levels, Len(md.levels))
         ELSE [heap |-> t.heap, ids |-> t.levels], LAMBDA given :
    With(IF given.ids # <<>> THEN [raised |-> "", heap |-> given.heap, ids |-> given.ids]
         ELSE With(flat_level(given.heap, name, md, t.label), LAMBDA flat :
                   [raised |-> flat.raised, heap |-> flat.heap,
                    ids |-> <<Len(flat.heap)>>]), LAMBDA levels :
    IF levels.raised # ""
    THEN [raised |-> levels.raised, arg |-> None, heap |-> h, dim |-> 0]
    ELSE
    With(IF md.hierarchy # <<>>
         THEN Append(levels.heap, NewHierarchy("default", ByName(md.hierarchy), None))
         ELSE levels.heap, LAMBDA h1 :
    With(Dimension_init(h1, name, levels.ids,
                        IF md.hierarchy # <<>> THEN <<Len(h1)>> ELSE t.hierarchies,
                        IF md.default_hierarchy_name # None
                        THEN md.default_hierarchy_name ELSE t.default_hierarchy_name,
                        t.label), LAMBDA d :
         IF d.raised # "" THEN [raised |-> d.raised, arg |-> None, heap |-> h, dim |-> 0]
         ELSE [raised |-> "", arg |-> None, heap |-> d.heap, dim |-> d.dim])))))

DimIdle ==
    /\ dmeta = <<>>
    /\ dheap = <<>>
    /\ dpool = <<>>
    /\ dcall = [op |-> "init"]
    /\ nmut = 0

\* a batch of definitions and an empty pool
DimInit ==
    /\ \E a \in Metadata({}), b \in Metadata({"date"}), c \in Metadata({"date", "fiscal"}) :
          dmeta = [n \in BatchNames |->
                      IF n = "date" THEN a ELSE IF n = "fiscal" THEN b ELSE c]
    /\ dheap = <<>>
    /\ dpool = [n \in BatchNames |-> 0]
    /\ dcall = [op |-> "init"]
    /\ nmut = 0

\* the caller builds the dimension n of the batch with create_dimension and, when that
\* returns, adds the dimension to the pool
CreateDimension(n) ==
    /\ dpool[n] = 0
    /\ \E r \in {create_dimension(dheap, dpool, dmeta[n], n)} :
          /\ dheap' = r.heap
          /\ dpool' = IF r.raised = "" THEN [dpool EXCEPT ![n] = r.dim] ELSE dpool
          /\ dcall' = [op |-> "create_dimension", name |-> n, raised |-> r.raised,
                       arg |-> r.arg, obj |-> 0]
    /\ UNCHANGED <<dmeta, nmut, regVars, hierVars, provVars>>

\* localize_common on a level, attribute or hierarchy: the label or the description of
\* the object is overwritten
SetText(o, field) ==
    /\ nmut < MaxMutations
    /\ dheap[o].kind \in {"Level", "Attribute", "Hierarchy"}
    /\ dheap' = [dheap EXCEPT ![o] = IF field = "label"
                                     THEN [@ EXCEPT !.label = "changed"]
                                     ELSE [@ EXCEPT !.description = "changed"]]
    /\ nmut' = nmut + 1
    /\ dcall' = [op |-> "localize", name |-> field, raised |-> "", arg |-> None,
                 obj |-> o]
    /\ UNCHANGED <<dmeta, dpool, regVars, hierVars, provVars>>

DimNext ==
    \/ \E n \in BatchNames : CreateDimension(n)
    \/ \E o \in 1..Len(dheap), field \in {"label", "description"} : SetText(o, field)

\* one definition of a flat dimension "product" and an empty pool
FlatInit ==
    /\ \E md \in FlatMetadata : dmeta = [n \in {"product"} |-> md]
    /\ dheap = <<>>
    /\ dpool = [n \in {"product"} |-> 0]
    /\ dcall = [op |-> "init"]
    /\ nmut = 0

FlatNext ==
    \/ CreateDimension("product")
    \/ \E o \in 1..Len(dheap), field \in {"label", "description"} : SetText(o, field)

(***************************************************************************)
(* Part 5.  Model.localize.                                                *)
(*                                                                         *)
(* The heap of Part 4 also holds Cube and Model objects.  The model has    *)
(* the cube "sales" with the measure "amount" and the detail "note", and   *)
(* the dimension "date".                                                   *)
(***************************************************************************)
\* the objects an object refers to and copy.deepcopy follows: Attribute.__deepcopy__
\* hands its dimension on as it is
Refs(h, x) ==
    CASE h[x].kind = "Model" -> SeqRange(h[x].cubes) \cup SeqRange(h[x].dimensions)
      [] h[x].kind = "Cube" ->
            SeqRange(h[x].measures) \cup SeqRange(h[x].details)
               \cup SeqRange(h[x].dimensions)
      [] h[x].kind = "Dimension" -> SeqRange(h[x].levels) \cup SeqRange(h[x].hierarchies)
      [] h[x].kind = "Hierarchy" -> SeqRange(h[x].refs.objs) \cup ({h[x].dimension} \ {0})
      [] h[x].kind = "Level" -> SeqRange(h[x].attributes)
      [] OTHER -> {}

ReachStep(h, S) == With(S, LAMBDA T : T \cup UNION {Refs(h, x) : x \in T})

\* the objects copy.deepcopy(m) copies: a model's object graph is five objects deep
Reachable(h, m) ==
    ReachStep(h, ReachStep(h, ReachStep(h, ReachStep(h, ReachStep(h, {m})))))

\* the copy of object x, with copied[y] the copy of every object y that is copied
CopyOf(h, x, copied) ==
    LET ids(q) == [i \in 1..Len(q) |-> copied[q[i]]]
    IN CASE h[x].kind = "Model" ->
              [h[x] EXCEPT !.cubes = ids(@), !.dimensions = ids(@)]
         [] h[x].kind = "Cube" ->
              [h[x] EXCEPT !.measures = ids(@), !.details = ids(@), !.dimensions = ids(@)]
         [] h[x].kind = "Dimension" ->
              [h[x] EXCEPT !.levels = ids(@), !.hierarchies = ids(@)]
         [] h[x].kind = "Hierarchy" ->
              [h[x] EXCEPT !.refs = [@ EXCEPT !.objs = ids(@)],
                           !.dimension = IF @ = 0 THEN 0 ELSE copied[@]]
         [] h[x].kind = "Level" ->
              [h[x] EXCEPT !.attributes = ids(@), !.key = copied[@],
                           !.label_attribute = copied[@], !.order_attribute = copied[@],
                           !.description = None]
         [] OTHER -> h[x]

\* a plausible slip: the model is localized in place
model_copy_inplace(h, m) == [heap |-> h, model |-> m]

\* model = copy.deepcopy(self): the heap with the copies appended, and the copy of m
model_copy(h, m) ==
    With(Reachable(h, m), LAMBDA R :
    With([x \in R |-> Len(h) + Cardinality({y \in R : y <= x})], LAMBDA copied :
         [heap |-> h \o [i \in 1..Cardinality(R) |->
                            CopyOf(h, CHOOSE x \in R : copied[x] = Len(h) + i, copied)],
          model |-> copied[m]]))

\* localize_common(obj, trans) with trans a dict: None stands for a key not given
localize_common(obj, label, description) ==
    [obj EXCEPT !.label = IF label # None THEN label ELSE @,
                !.description = IF description # None THEN description ELSE @]

\* the translations: a locale, or none, and for every kind of object whether the
\* translation names it (the measure and the detail together):
\*   {"locale": "sk", "label": "M", "description": "Md",
\*    "cubes": {"sales": {"label": "C", "measures": {"amount": "A"},
\*                        "details": {"note": {"description": "N"}}}},
\*    "dimensions": {"date": {"label": "D", "attributes": {"year": "T"},
\*                            "levels": {"month": {"label": "L", "description": "Ld"}}}}}
Translations ==
    [locale : {"sk"}, model : BOOLEAN, cube : BOOLEAN, measure : BOOLEAN,
     dimension : BOOLEAN, level : BOOLEAN, attribute : BOOLEAN]
    \cup [locale : {None}, model : {TRUE}, cube : {FALSE}, measure : {FALSE},
          dimension : {FALSE}, level : {FALSE}, attribute : {FALSE}]

\* the objects of model m that the translation names
CubesNamed(h, m, name) == {c \in SeqRange(h[m].cubes) : h[c].name = name}

DimensionsNamed(h, m, name) == {d \in SeqRange(h[m].dimensions) : h[d].name = name}

\* model.locale = ...; localize_common(model, translation); Cube.localize and
\* Dimension.localize (with Level.localize) on the named cube and dimension
localized(h, m, tr) ==
    LET cubes == CubesNamed(h, m, "sales")
        dims == DimensionsNamed(h, m, "date")
        measures == UNION {SeqRange(h[c].measures) : c \in cubes}
        details == UNION {SeqRange(h[c].details) : c \in cubes}
        levels == UNION {SeqRange(h[d].levels) : d \in dims}
        attributes == UNION {dimension_attributes(h, h[d].levels) : d \in dims}
    IN [x \in 1..Len(h) |->
          IF x = m
          THEN [localize_common(h[x], IF tr.model THEN "M" ELSE None,
                                IF tr.model THEN "Md" ELSE None)
                   EXCEPT !.locale = tr.locale]
          ELSE IF x \in cubes /\ tr.cube THEN localize_common(h[x], "C", None)
          ELSE IF x \in measures /\ tr.measure /\ h[x].name = "amount"
          THEN localize_common(h[x], "A", None)
          ELSE IF x \in details /\ tr.measure /\ h[x].name = "note"
          THEN localize_common(h[x], None, "N")
          ELSE IF x \in dims /\ tr.dimension THEN localize_common(h[x], "D", None)
          ELSE IF x \in attributes /\ tr.attribute /\ h[x].name = "year"
          THEN localize_common(h[x], "T", None)
          ELSE IF x \in levels /\ tr.level /\ h[x].name = "month"
          THEN localize_common(h[x], "L", "Ld")
          ELSE h[x]]

\* Model.localize(translation) on the model m
Model_localize(h, m, tr) ==
    IF tr.locale = None THEN [raised |-> "ValueError", heap |-> h, model |-> 0]
    ELSE With(model_copy(h, m), LAMBDA c :
              [raised |-> "", heap |-> localized(c.heap, c.model, tr), model |-> c.model])

\* Model(cubes=[sales], dimensions=[date]) with the cube and the dimension built from
\* metadata
LocInit ==
    /\ dmeta = <<>>
    /\ dpool = <<>>
    /\ \E md \in Metadata({}) :
          LET d == create_dimension(<<>>, [n \in {"date"} |-> 0], md, "date")
              n == Len(d.heap)
          IN dheap = d.heap \o
                <<NewAttribute("amount", 0), NewAttribute("note", 0),
                  [kind |-> "Cube", name |-> "sales", label |-> None,
                   description |-> None, measures |-> <<n + 1>>, details |-> <<n + 2>>,
                   dimensions |-> <<d.dim>>],
                  [kind |-> "Model", name |-> "model", label |-> None,
                   description |-> None, locale |-> None, cubes |-> <<n + 3>>,
                   dimensions |-> <<d.dim>>]>>
    /\ dcall = [op |-> "init"]
    /\ nmut = 0

\* a call of localize on one of the models there are
Localize(m, tr) ==
    /\ nmut < MaxMutations
    /\ dheap[m].kind = "Model"
    /\ \E r \in {Model_localize(dheap, m, tr)} :
          /\ dheap' = r.heap
          /\ dcall' = [op |-> "Model.localize", self |-> m, translation |-> tr,
                       raised |-> r.raised, model |-> r.model]
    /\ nmut' = nmut + 1
    /\ UNCHANGED <<dmeta, dpool, regVars, hierVars, provVars>>

LocNext ==
    \E m \in 1..Len(dheap), tr \in Translations : Localize(m, tr)

(***************************************************************************)
(* Part 6.  Attribute.ref, aggregate_ref and split_aggregate_ref.          *)
(*                                                                         *)
(* For Attribute.ref, hobj is an Attribute with its locales and its        *)
(* dimension: None, or a Dimension given by its name and, for every level, *)
(* the number of the level's attributes.  For the aggregate references,    *)
(* a string is the sequence of its characters.                             *)
(***************************************************************************)
MaxStr == 2

NoDimension == [some |-> FALSE, name |-> "", levels |-> <<>>]

AttributeObjects ==
    [kind : {"Attribute"}, name : {"year", "code"}, locales : {<<>>, <<"sk">>},
     dimension : {NoDimension}
                    \cup [some : {TRUE}, name : {"date", "product"},
                          levels : {<<1>>, <<2>>, <<1, 1>>, <<1, 2>>}]]

\* Dimension.is_flat and Dimension.has_details
Dimension_is_flat(dim) == Len(dim.levels) = 1

Dimension_has_details(dim) == \E i \in 1..Len(dim.levels) : dim.levels[i] > 1

\* a plausible slip: the details of the only level are not looked at
ref_simplified_flat(dim, simplify) == simplify /\ Dimension_is_flat(dim)

\* "simplify and (self.dimension.is_flat and not self.dimension.has_details)"
ref_simplified(dim, simplify) ==
    simplify /\ Dimension_is_flat(dim) /\ ~Dimension_has_details(dim)

\* Attribute.ref(simplify, locale)
Attribute_ref(attr, simplify, locale) ==
    LET reference == IF attr.dimension.some
                     THEN IF ref_simplified(attr.dimension, simplify)
                          THEN attr.dimension.name
                          ELSE attr.dimension.name \o "." \o attr.name
                     ELSE attr.name
    IN IF Truthy(locale)
       THEN IF attr.locales = <<>> \/ locale \notin SeqRange(attr.locales)
            THEN Raised("ArgumentError")
            ELSE Returned(reference \o "." \o locale)
       ELSE Returned(reference)

RefInit ==
    /\ hobj \in AttributeObjects
    /\ hargs \in [simplify : BOOLEAN, locale : {None, "sk", "de"}]
    /\ hcall = [op |-> "init"]

AttributeRef ==
    /\ hcall.op = "init"
    /\ hobj.kind = "Attribute"
    /\ hcall' = [op |-> "ref",
                 result |-> Attribute_ref(hobj, hargs.simplify, hargs.locale)]
    /\ UNCHANGED <<hobj, hargs, regVars, provVars, dimVars>>

RefNext == AttributeRef

\* the characters of measure and aggregate names
Chars == {"a", "_"}

Strings == UNION {[1..n -> Chars] : n \in 0..MaxStr}

\* aggregate_ref(measure, aggregate): "%s_%s"
aggregate_ref(measure, aggregate) == measure \o <<"_">> \o aggregate

\* a plausible slip: the first underscore is taken
find_underscore(str) ==
    IF \E i \in 1..Len(str) : str[i] = "_"
    THEN (CHOOSE i \in 1..Len(str) :
             str[i] = "_" /\ \A j \in 1..(i - 1) : str[j] # "_") - 1
    ELSE -1

\* measure.rfind("_"): the index, from 0, of the last underscore, or -1
rfind_underscore(str) ==
    IF \E i \in 1..Len(str) : str[i] = "_"
    THEN (CHOOSE i \in 1..Len(str) :
             str[i] = "_" /\ \A j \in (i + 1)..Len(str) : str[j] # "_") - 1
    ELSE -1

\* split_aggregate_ref(measure)
split_aggregate_ref(measure) ==
    LET r == rfind_underscore(measure)
    IN IF r = -1 \/ r >= Len(measure) - 1 THEN Raised("ArgumentError")
       ELSE Returned(<<SubSeq(measure, 1, r), SubSeq(measure, r + 2, Len(measure))>>)

AggInit ==
    /\ hobj \in [kind : {"names"}, measure : Strings, aggregate : Strings]
    /\ hargs = NoArgs
    /\ hcall = [op |-> "init"]

\* split_aggregate_ref(aggregate_ref(measure, aggregate))
SplitAggregateRef ==
    /\ hcall.op = "init"
    /\ hobj.kind = "names"
    /\ hcall' = [op |-> "split_aggregate_ref(aggregate_ref)",
                 result |-> split_aggregate_ref(aggregate_ref(hobj.measure,
                                                              hobj.aggregate))]
    /\ UNCHANGED <<hobj, hargs, regVars, provVars, dimVars>>

\* split_aggregate_ref(measure) on a string as it is
Split ==
    /\ hcall.op = "init"
    /\ hobj.kind = "names"
    /\ hcall' = [op |-> "split_aggregate_ref",
                 result |-> split_aggregate_ref(hobj.measure)]
    /\ UNCHANGED <<hobj, hargs, regVars, provVars, dimVars>>

AggNext == SplitAggregateRef \/ Split

\* C28: a Model.add_cube call that raises leaves the model unchanged: neither the cube
\* nor any of its dimensions, those listed before the conflicting one included, is
\* registered afterwards
C28_AddCubeAtomic ==
    [][ (last'.op = "Model.add_cube" /\ last'.raised) =>
          /\ mdims' = mdims
          /\ mcubes' = mcubes ]_vars

(***************************************************************************)
(* Claims about Hierarchy.rollup and the default hierarchy (SpecHier).     *)
(***************************************************************************)
\* the only member of a one-element set
TheOnly(S) == CHOOSE x \in S : TRUE

NamedRollup ==
    /\ hobj.kind = "Hierarchy"
    /\ hcall.op = "rollup"
    /\ Truthy(hargs.level)
    /\ IndexOf(hobj.levels, hargs.level) >= 0

\* C7 as stated: rollup to the level of index k returns the first k elements of the path
C7_Original ==
    (NamedRollup /\ Len(hargs.path) >= IndexOf(hobj.levels, hargs.level) + 1) =>
        /\ hcall.result.raised = ""
        /\ hcall.result.value = SubSeq(hargs.path, 1, IndexOf(hobj.levels, hargs.level))

\* C7 amended: for a path whose length reaches the named level Lk, rollup(path, level=Lk)
\* returns the prefix of the path that includes the element at the named level's depth
\* and excludes everything deeper, i.e. the first k+1 elements; for year, month, day and
\* path ["2020","03","15"], rollup to "month" returns ["2020","03"].
C7_RollupKeepsNamedLevel ==
    /\ (NamedRollup /\ Len(hargs.path) >= IndexOf(hobj.levels, hargs.level) + 1) =>
          /\ hcall.result.raised = ""
          /\ Len(hcall.result.value) = IndexOf(hobj.levels, hargs.level) + 1
          /\ \A i \in 1..Len(hcall.result.value) : hcall.result.value[i] = hargs.path[i]
    /\ (/\ hobj.kind = "Hierarchy"
        /\ hcall.op = "rollup"
        /\ hobj.levels = <<"year", "month", "day">>
        /\ hargs = [path |-> <<"2020", "03", "15">>, level |-> "month"]) =>
          hcall.result = [raised |-> "", value |-> <<"2020", "03">>]

\* C7 witness: the example call has returned
C7_Witness ==
    /\ hobj.kind = "Hierarchy"
    /\ hobj.levels = <<"year", "month", "day">>
    /\ hargs = [path |-> <<"2020", "03", "15">>, level |-> "month"]
    /\ hcall.op = "rollup"
    /\ hcall.result.raised = ""

\* C8: rollup(path, level=None) never raises; it returns the path without its last
\* element for a non-empty path and the empty path for the empty path.
C8_RollupOneLevel ==
    (hobj.kind = "Hierarchy" /\ hcall.op = "rollup" /\ hargs.level = None) =>
        /\ hcall.result.raised = ""
        /\ IF Len(hargs.path) = 0
           THEN hcall.result.value = <<>>
           ELSE /\ Len(hcall.result.value) = Len(hargs.path) - 1
                /\ \A i \in 1..(Len(hargs.path) - 1) : hcall.result.value[i] = hargs.path[i]

\* C8 witness: rollup of a three element path with level=None has returned its first two
C8_Witness ==
    /\ hobj.kind = "Hierarchy"
    /\ hcall.op = "rollup"
    /\ hargs = [path |-> <<"2020", "03", "15">>, level |-> None]
    /\ hcall.result = [raised |-> "", value |-> <<"2020", "03">>]

\* C9: rollup(path, level) with the named level at index i raises HierarchyError when
\* i+1 exceeds the path length and otherwise returns the first i+1 elements of the
\* path; rolling up to the level of the path's last element returns the path unchanged.
C9_RollupNamedLevel ==
    NamedRollup =>
        LET i == IndexOf(hobj.levels, hargs.level)
        IN /\ i + 1 > Len(hargs.path) => hcall.result.raised = "HierarchyError"
           /\ i + 1 <= Len(hargs.path) =>
                 /\ hcall.result.raised = ""
                 /\ hcall.result.value = SubSeq(hargs.path, 1, i + 1)
           /\ i + 1 = Len(hargs.path) => hcall.result.value = hargs.path

\* C9 witness: the named level is deeper than the path and rollup has raised
C9_Witness ==
    /\ NamedRollup
    /\ hargs.path = <<"2020">>
    /\ IndexOf(hobj.levels, hargs.level) = 1
    /\ hcall.result.raised = "HierarchyError"

(***************************************************************************)
(* Claims about DefaultModelProvider.cube (SpecProv).                      *)
(***************************************************************************)
\* an optional dict read as a dict: None counts as the empty dict
AsDict(o) == IF o.some THEN o.v ELSE <<>>

\* C10: for every combination of model-wide mappings present or absent and cube
\* mappings present or absent, cube(name) returns a cube whose mappings are the
\* model-wide mappings overlaid with the cube's own mappings (the cube's entry wins).
C10_MappingsOverlay ==
    (pcall.op = "cube" /\ pcall.name \in CubeNames /\ pcall.raised # "ModelError") =>
        /\ pcall.raised = ""
        /\ AsDict(pcall.cube.mappings)
             = DictUpdate(AsDict(pmeta.mappings), AsDict(pcubes[pcall.name].mappings))

\* the model-level join of that name, as a set with at most one element
ModelJoinsNamed(nm) ==
    {pmeta0.joins.v[i] : i \in {j \in 1..Len(pmeta0.joins.v) :
                                   JoinName(pmeta0.joins.v[j]) = nm}}

\* the last call was cube(name) on a known cube and returned a Cube
CubeReturned == pcall.op = "cube" /\ pcall.name \in CubeNames /\ pcall.raised = ""

\* C11: when both the model and the cube declare joins, the returned cube has one join
\* per cube-level join, in cube order: the model join of the same name with the cube
\* join's fields laid over it, or the cube join unchanged when no model join has its
\* name; every entry independently, also when two cube joins name one model join.
C11_JoinsMergedByName ==
    (CubeReturned /\ NonEmpty(pmeta0.joins) /\ NonEmpty(pcubes[pcall.name].joins)) =>
        LET cube_joins == pcubes[pcall.name].joins.v
        IN /\ pcall.cube.joins.some
           /\ Len(pcall.cube.joins.v) = Len(cube_joins)
           /\ \A i \in 1..Len(cube_joins) :
                 pcall.cube.joins.v[i] =
                    IF ModelJoinsNamed(JoinName(cube_joins[i])) # {}
                    THEN DictUpdate(TheOnly(ModelJoinsNamed(JoinName(cube_joins[i]))),
                                    cube_joins[i])
                    ELSE cube_joins[i]

\* a model-level join has no name key, or two model-level joins share a name
BadModelJoins ==
    /\ pmeta0.joins.some
    /\ \/ \E i \in 1..Len(pmeta0.joins.v) : "name" \notin DOMAIN pmeta0.joins.v[i]
       \/ \E i, j \in 1..Len(pmeta0.joins.v) :
             /\ i < j
             /\ "name" \in DOMAIN pmeta0.joins.v[i]
             /\ "name" \in DOMAIN pmeta0.joins.v[j]
             /\ pmeta0.joins.v[i]["name"] = pmeta0.joins.v[j]["name"]

\* the mappings merge of cube(name) raises before the joins are looked at (see C10)
MappingsRaise(name) == NonEmpty(pmeta0.mappings) /\ ~pcubes[name].mappings.some

\* C12 as stated: cube(name) raises ModelError for every known cube when a model-level
\* join has no name or two model-level joins share a name.
C12_Original ==
    (pcall.op = "cube" /\ pcall.name \in CubeNames /\ BadModelJoins) =>
        pcall.raised = "ModelError"

\* C12: the model-level joins are examined only for a cube that declares joins of its
\* own: for such a cube a model-level join without a name, or a repeated model-level
\* name, makes cube(name) raise ModelError (TypeError when the mappings merge has
\* failed first); for a cube without joins the model-level joins raise nothing.
C12_BadModelJoinsRaise ==
    (pcall.op = "cube" /\ pcall.name \in CubeNames /\ BadModelJoins) =>
        IF MappingsRaise(pcall.name) THEN pcall.raised = "TypeError"
        ELSE IF NonEmpty(pcubes[pcall.name].joins) THEN pcall.raised = "ModelError"
        ELSE pcall.raised = ""

\* a cube with joins was asked for while two model-level joins share the name j1
C12_Witness ==
    /\ pcall.op = "cube" /\ pcall.name = "A"
    /\ NonEmpty(pcubes["A"].joins)
    /\ pmeta0.joins.some /\ Len(pmeta0.joins.v) = 2
    /\ JoinName(pmeta0.joins.v[1]) = JoinName(pmeta0.joins.v[2])
    /\ pcall.raised = "ModelError"

\* C13: the returned cube's browser_options are the model-wide browser_options with the
\* cube's own laid over them, and hold no option that neither the model nor this cube
\* declares.
C13_BrowserOptionsMerged ==
    CubeReturned =>
        pcall.cube.browser_options
           = DictUpdate(AsDict(pmeta0.browser_options),
                        AsDict(pcubes[pcall.name].browser_options))

\* C27: cube(name) leaves the stored model-wide metadata and the cube records as they
\* were given, so the outcome for a name is the outcome of the first call on a fresh
\* provider, whatever calls were made before
C27_StoredMetadataUnchanged ==
    /\ pmeta = pmeta0
    /\ pcall.op = "cube" =>
          /\ pcall.raised = provider_cube(pmeta0, pcubes, pcall.name).raised
          /\ pcall.cube = provider_cube(pmeta0, pcubes, pcall.name).cube

(***************************************************************************)
(* Claims about create_dimension, checked under SpecDim.                   *)
(***************************************************************************)
\* the levels of the hierarchies of dimension d, where they can be resolved
HierarchyLevelsOf(h, d) ==
    UNION {SeqRange(hierarchy_levels(h, h[d].hierarchies[i]).ids) :
              i \in 1..Len(h[d].hierarchies)}

\* the levels, hierarchies and attributes that dimension d holds
ObjectsOf(h, d) ==
    LET ls == SeqRange(h[d].levels) \cup HierarchyLevelsOf(h, d)
    IN ls \cup SeqRange(h[d].hierarchies)
          \cup UNION {SeqRange(h[l].attributes) : l \in ls}

\* the dimensions of the batch that name a template and are built
Derived(pool) == {n \in BatchNames : dmeta[n].template # None /\ pool[n] # 0}

C5_TemplateCopiesIndependent ==
    [][\A n \in Derived(dpool') :
          LET d == dpool'[n]
              t == dpool'[dmeta[n].template]
          IN /\ ObjectsOf(dheap', d) \cap ObjectsOf(dheap', t) = {}
             /\ HierarchyLevelsOf(dheap', d) \cap SeqRange(dheap'[t].levels) = {}
             /\ (dcall'.op = "localize" /\ dcall'.obj \in ObjectsOf(dheap, d))
                   => \A x \in ObjectsOf(dheap, t) : dheap'[x] = dheap[x]
             /\ (dcall'.op = "localize" /\ dcall'.obj \in ObjectsOf(dheap, t))
                   => \A x \in ObjectsOf(dheap, d) : dheap'[x] = dheap[x]]_vars

\* a level copy of a derived dimension, used by one of its hierarchies, has got a new
\* label while the template's level of the same name has kept its own
C5_Witness ==
    /\ dcall.op = "localize"
    /\ \E n \in Derived(dpool) :
          /\ dcall.obj \in HierarchyLevelsOf(dheap, dpool[n])
          /\ dcall.obj \in SeqRange(dheap[dpool[n]].levels)
          /\ dheap[dcall.obj].label = "changed"
          /\ \E l \in SeqRange(dheap[dpool[dmeta[n].template]].levels) :
                /\ dheap[l].name = dheap[dcall.obj].name
                /\ dheap[l].label = None

\* Dimension.is_flat
is_flat(h, d) == Len(h[d].levels) = 1

\* C16: a dimension built from metadata that gives its levels as bare names and no
\* hierarchy has one level per name, in that order, every level with exactly one
\* attribute named like the level, and exactly one hierarchy, named "default", whose
\* levels are the dimension's own levels in the given order; it is not flat when more
\* than one name is given.
C16_BareLevelNames ==
    \A n \in DOMAIN dpool :
        (dpool[n] # 0 /\ dmeta[n].levels # <<>> /\ dmeta[n].hierarchy = <<>>) =>
            LET d == dheap[dpool[n]]
            IN /\ Len(d.levels) = Len(dmeta[n].levels)
               /\ \A i \in 1..Len(d.levels) :
                     /\ dheap[d.levels[i]].name = dmeta[n].levels[i]
                     /\ Len(dheap[d.levels[i]].attributes) = 1
                     /\ dheap[dheap[d.levels[i]].attributes[1]].name = dmeta[n].levels[i]
               /\ Len(d.hierarchies) = 1
               /\ dheap[d.hierarchies[1]].name = "default"
               /\ hierarchy_levels(dheap, d.hierarchies[1]) = [raised |-> "", ids |-> d.levels]
               /\ (Len(dmeta[n].levels) > 1 => ~is_flat(dheap, dpool[n]))

\* C30: for every Dimension create_dimension returns, each level of each of its
\* hierarchies is, by identity, one of the dimension's own levels; with a template and
\* explicit levels, the explicit levels are the dimension's levels
C30_HierarchyLevelsOwned ==
    \A n \in DOMAIN dpool :
        dpool[n] # 0 =>
            LET d == dheap[dpool[n]]
            IN /\ \A i \in 1..Len(d.hierarchies) :
                     /\ hierarchy_levels(dheap, d.hierarchies[i]).raised = ""
                     /\ SeqRange(hierarchy_levels(dheap, d.hierarchies[i]).ids)
                           \subseteq SeqRange(d.levels)
               /\ (dmeta[n].template # None /\ dmeta[n].levels # <<>>)
                     => [i \in 1..Len(d.levels) |-> dheap[d.levels[i]].name]
                           = dmeta[n].levels

(***************************************************************************)
(* Claims about the flat level of create_dimension, checked under SpecFlat.*)
(***************************************************************************)
\* the attribute names the only level is to have
FlatAttributeNames(n) ==
    IF dmeta[n].attributes.some THEN dmeta[n].attributes.v ELSE <<n>>

\* key, label_attribute and order_attribute, where given, name attributes of the list
FlatMetadataConsistent(n) ==
    \A f \in {dmeta[n].key, dmeta[n].label_attribute, dmeta[n].order_attribute} :
        f # None => f \in SeqRange(FlatAttributeNames(n))

\* C17: create_dimension on metadata without template and levels, whose key,
\* label_attribute and order_attribute name attributes of its list, returns a dimension
\* with exactly one level, named after the dimension, with the given attributes (or the
\* one attribute named like the dimension), the given key, label and order attributes.
C17_FlatLevelFromMetadata ==
    \A n \in DOMAIN dmeta :
        (/\ dcall.op = "create_dimension" /\ dcall.name = n
         /\ dmeta[n].template = None /\ dmeta[n].levels = <<>>
         /\ FlatMetadataConsistent(n)) =>
            /\ dcall.raised = ""
            /\ dpool[n] # 0
            /\ LET d == dheap[dpool[n]]
                   l == dheap[d.levels[1]]
               IN /\ Len(d.levels) = 1
                  /\ l.name = n
                  /\ [i \in 1..Len(l.attributes) |-> dheap[l.attributes[i]].name]
                        = FlatAttributeNames(n)
                  /\ dmeta[n].key # None => dheap[l.key].name = dmeta[n].key
                  /\ dmeta[n].label_attribute # None
                        => dheap[l.label_attribute].name = dmeta[n].label_attribute
                  /\ dmeta[n].order_attribute # None
                        => dheap[l.order_attribute].name = dmeta[n].order_attribute

(***************************************************************************)
(* Claims about Model.localize, checked under SpecLoc.                     *)
(***************************************************************************)
\* label and description of the object, when there is exactly one such object
TextOf(h, S) ==
    IF S = {} THEN <<>> ELSE <<h[TheOnly(S)].label, h[TheOnly(S)].description>>

\* the texts of a model: of the model, of its cube, measure and detail, of its
\* dimension, of the level "month" and of the attribute "year"
TextsOf(h, m) ==
    LET cubes == CubesNamed(h, m, "sales")
        dims == DimensionsNamed(h, m, "date")
    IN [model |-> TextOf(h, {m}),
        cube |-> TextOf(h, cubes),
        measure |-> TextOf(h, UNION {SeqRange(h[c].measures) : c \in cubes}),
        detail |-> TextOf(h, UNION {SeqRange(h[c].details) : c \in cubes}),
        dimension |-> TextOf(h, dims),
        level |-> TextOf(h, {l \in UNION {SeqRange(h[d].levels) : d \in dims} :
                                h[l].name = "month"}),
        attribute |-> TextOf(h, {a \in UNION {AttributesOf(h, h[d].levels) : d \in dims} :
                                    h[a].name = "year"})]

\* a text with the label and the description of a translation laid over it
Over(text, given, label, description) ==
    IF text = <<>> \/ ~given THEN text
    ELSE <<IF label # None THEN label ELSE text[1],
           IF description # None THEN description ELSE text[2]>>

C18_AttributeRef ==
    (hobj.kind = "Attribute" /\ hcall.op = "ref" /\ hargs.locale = None) =>
        LET dim == hobj.dimension
        IN hcall.result =
              Returned(IF ~dim.some THEN hobj.name
                       ELSE IF hargs.simplify /\ dim.levels = <<1>> THEN dim.name
                       ELSE dim.name \o "." \o hobj.name)

\* ref() with simplify on an attribute of a dimension with one level of two attributes
C18_Witness ==
    /\ hobj.kind = "Attribute" /\ hcall.op = "ref" /\ hargs.locale = None
    /\ hargs.simplify
    /\ hobj.dimension.some /\ hobj.dimension.levels = <<2>>
    /\ hobj.dimension.name = "product" /\ hobj.name = "code"
    /\ hcall.result = Returned("product.code")

HasUnderscore(str) == \E i \in 1..Len(str) : str[i] = "_"

\* C19: split_aggregate_ref(aggregate_ref(m, a)) is (m, a) for non-empty m and a with
\* no underscore in a; split_aggregate_ref raises ArgumentError on a string without
\* underscore and on a string that ends with an underscore.
C19_AggregateRefRoundTrip ==
    /\ (/\ hobj.kind = "names" /\ hcall.op = "split_aggregate_ref(aggregate_ref)"
        /\ hobj.measure # <<>> /\ hobj.aggregate # <<>>
        /\ ~HasUnderscore(hobj.aggregate))
          => hcall.result = Returned(<<hobj.measure, hobj.aggregate>>)
    /\ (/\ hobj.kind = "names" /\ hcall.op = "split_aggregate_ref"
        /\ \/ ~HasUnderscore(hobj.measure)
           \/ hobj.measure[Len(hobj.measure)] = "_")
          => hcall.result = Raised("ArgumentError")

\* the round trip of a measure name that holds an underscore itself
C19_Witness ==
    /\ hobj.kind = "names" /\ hcall.op = "split_aggregate_ref(aggregate_ref)"
    /\ hobj.measure = <<"_", "a">> /\ hobj.aggregate = <<"a">>
    /\ hcall.result = Returned(<<hobj.measure, hobj.aggregate>>)

(***************************************************************************)
(* Part 7.  Model.validate and Model.is_valid.                             *)
(*                                                                         *)
(* The dimensions "date" and "product" are built with create_dimension, a  *)
(* model is made of them, with or without the cube "sales", and is_valid   *)
(* is called on it.  The hierarchies of a dimension are a public attribute:*)
(* a caller may empty them, the state the 'No hierarchies' branch of       *)
(* Dimension.validate is written for.  A validation result is the sequence *)
(* of the severities of its entries.                                       *)
(***************************************************************************)
\* the definitions of "date": with or without levels, with or without the name of a
\* default hierarchy that does not exist
DateMetadata ==
    [template : {None}, levels : LevelsMetadata, hierarchy : {<<>>},
     attributes : {Absent}, key : {None}, label_attribute : {None},
     order_attribute : {None}, default_hierarchy_name : {None, "weekly"}]

\* the definitions of "product", whose only level takes the attributes of the
\* definition: none given, an empty list, or two attributes
ProductMetadata ==
    [template : {None}, levels : {<<>>}, hierarchy : {<<>>},
     attributes : {Absent, Some(<<>>), Some(<<"product", "title">>)},
     key : {None}, label_attribute : {None}, order_attribute : {None},
     default_hierarchy_name : {None}]

ScenarioNames == {"date", "product"}

\* the Attribute a as Attribute.ref reads it: its name, and the name and the levels
\* (by their number of attributes) of its dimension
AttributeView(h, a) ==
    [kind |-> "Attribute", name |-> h[a].name, locales |-> <<>>,
     dimension |->
        IF h[a].dimension = 0 THEN NoDimension
        ELSE [some |-> TRUE, name |-> h[h[a].dimension].name,
              levels |-> [i \in 1..Len(h[h[a].dimension].levels) |->
                             Len(h[h[h[a].dimension].levels[i]].attributes)]]]

\* the concatenation of seqs[1..n]
RECURSIVE Flatten(_, _)
Flatten(seqs, n) == IF n = 0 THEN <<>> ELSE Flatten(seqs, n - 1) \o seqs[n]

\* Dimension.validate, "if attr_name in attributes": the reference of the k-th of the
\* attributes visited is the reference of one visited before
is_duplicate(h, visited, k) ==
    LET ref(a) == Attribute_ref(AttributeView(h, a), TRUE, None).value
    IN \E j \in 1..(k - 1) : ref(visited[j]) = ref(visited[k])

\* Dimension.validate, the body of "for attribute in level.attributes" for the k-th of
\* the attributes visited so far
attribute_results(h, d, visited, k) ==
    (IF is_duplicate(h, visited, k) THEN <<"error">> ELSE <<>>)
    \o (IF h[visited[k]].dimension # d THEN <<"error">> ELSE <<>>)

\* Dimension.validate, the body of "for level_name, level in self._levels.items()" for
\* the i-th level
level_results(h, d, i) ==
    LET attrs == h[h[d].levels[i]].attributes
        key == h[h[d].levels[i]].key
        before == Flatten([j \in 1..(i - 1) |-> h[h[d].levels[j]].attributes], i - 1)
    IN IF attrs = <<>> THEN <<"error">>
       ELSE (IF key = 0 THEN <<"default">>
             ELSE IF \A j \in 1..Len(attrs) : h[attrs[j]].name # h[key].name
             THEN <<"error">> ELSE <<>>)
            \o Flatten([k \in 1..Len(attrs) |->
                          attribute_results(h, d, before \o attrs, Len(before) + k)],
                       Len(attrs))

\* Dimension.validate
Dimension_validate(h, d) ==
    LET names == {h[h[d].hierarchies[i]].name : i \in 1..Len(h[d].hierarchies)}
        default_hierarchy_name == h[d].default_hierarchy_name
    IN IF h[d].levels = <<>> THEN <<"error">>
       ELSE (IF h[d].hierarchies = <<>>
             THEN IF is_flat(h, d) THEN <<"default">> ELSE <<"error">>
             ELSE IF /\ ~Truthy(default_hierarchy_name)
                     /\ Len(h[d].hierarchies) > 1
                     /\ "default" \notin names
             THEN <<"error">> ELSE <<>>)
            \o (IF Truthy(default_hierarchy_name) /\ default_hierarchy_name \notin names
                THEN <<"error">> ELSE <<>>)
            \o Flatten([i \in 1..Len(h[d].levels) |-> level_results(h, d, i)],
                       Len(h[d].levels))

\* a plausible slip: a detail is not compared with the measures
detail_repeated_in_details(name, details, measures) == name \in details

\* "if str(detail) in details ... elif str(detail) in measures"
detail_repeated(name, details, measures) == name \in details \/ name \in measures

\* Cube.validate: every measure and detail is checked for being an Attribute, and its
\* name (str) for having occurred before
Cube_validate(h, c) ==
    LET measures == h[c].measures
        details == h[c].details
        names(objs, n) == {h[objs[j]].name : j \in 1..n}
        instance(o) == IF h[o].kind # "Attribute" THEN <<"error">> ELSE <<>>
    IN Flatten([k \in 1..Len(measures) |->
                   instance(measures[k])
                   \o (IF h[measures[k]].name \in names(measures, k - 1)
                       THEN <<"error">> ELSE <<>>)], Len(measures))
       \o Flatten([k \in 1..Len(details) |->
                   instance(details[k])
                   \o (IF detail_repeated(h[details[k]].name, names(details, k - 1),
                                          names(measures, Len(measures)))
                       THEN <<"error">> ELSE <<>>)], Len(details))

\* Model.validate
Model_validate(h, m) ==
    LET dimensions == h[m].dimensions
        cubes == h[m].cubes
    IN IF \E i \in 1..Len(dimensions) : h[dimensions[i]].kind # "Dimension"
       THEN [i \in 1..Cardinality({j \in 1..Len(dimensions) :
                                      h[dimensions[j]].kind # "Dimension"}) |-> "error"]
       ELSE Flatten([i \in 1..Len(dimensions) |-> Dimension_validate(h, dimensions[i])],
                    Len(dimensions))
            \o (IF cubes = <<>> THEN <<"warning">>
                ELSE Flatten([i \in 1..Len(cubes) |-> Cube_validate(h, cubes[i])],
                             Len(cubes)))

\* Model.is_valid(strict), on the result of validate()
Model_is_valid(results, strict) ==
    IF results = <<>> THEN TRUE
    ELSE IF strict THEN FALSE
    ELSE \A i \in 1..Len(results) : results[i] # "error"

\* the definitions of the two dimensions and an empty pool
ValidInit ==
    /\ \E a \in DateMetadata, b \in ProductMetadata :
          dmeta = [n \in ScenarioNames |-> IF n = "date" THEN a ELSE b]
    /\ dheap = <<>>
    /\ dpool = [n \in ScenarioNames |-> 0]
    /\ dcall = [op |-> "init"]
    /\ nmut = 0

\* Model(dimensions=[date, product]), or Model(cubes=[sales]) with
\* sales = Cube("sales", dimensions=[date, product], measures=["amount"]): the caller
\* needs both dimension objects
NewModel(with_cube) ==
    /\ \A n \in ScenarioNames : dpool[n] # 0
    /\ \A o \in 1..Len(dheap) : dheap[o].kind # "Model"
    /\ LET dimensions == <<dpool["date"], dpool["product"]>>
           n == Len(dheap)
       IN dheap' = dheap \o
             (IF with_cube
              THEN <<NewAttribute("amount", 0),
                     [kind |-> "Cube", name |-> "sales", label |-> None,
                      description |-> None, measures |-> <<n + 1>>, details |-> <<>>,
                      dimensions |-> dimensions]>>
              ELSE <<>>)
             \o <<[kind |-> "Model", name |-> "model", label |-> None,
                   description |-> None, locale |-> None,
                   cubes |-> IF with_cube THEN <<n + 2>> ELSE <<>>,
                   dimensions |-> dimensions]>>
    /\ dcall' = [op |-> "Model", with_cube |-> with_cube]
    /\ UNCHANGED <<dmeta, dpool, nmut, regVars, hierVars, provVars>>

\* the caller empties the hierarchies of the dimension d
ClearHierarchies(d) ==
    /\ dheap[d].kind = "Dimension"
    /\ dheap[d].hierarchies # <<>>
    /\ dheap' = [dheap EXCEPT ![d].hierarchies = <<>>]
    /\ dcall' = [op |-> "hierarchies", obj |-> d]
    /\ UNCHANGED <<dmeta, dpool, nmut, regVars, hierVars, provVars>>

\* a call of is_valid on the model m
IsValid(m, strict) ==
    /\ dheap[m].kind = "Model"
    /\ \E results \in {Model_validate(dheap, m)} :
          dcall' = [op |-> "Model.is_valid", self |-> m, strict |-> strict,
                    results |-> results, value |-> Model_is_valid(results, strict)]
    /\ UNCHANGED <<dmeta, dheap, dpool, nmut, regVars, hierVars, provVars>>

ValidNext ==
    \/ \E n \in ScenarioNames : CreateDimension(n)
    \/ \E with_cube \in BOOLEAN : NewModel(with_cube)
    \/ \E d \in 1..Len(dheap) : ClearHierarchies(d)
    \/ \E m \in 1..Len(dheap), strict \in BOOLEAN : IsValid(m, strict)

(***************************************************************************)
(* Claims about Model.is_valid (SpecValid).                                *)
(***************************************************************************)
Severities(results) == {results[i] : i \in 1..Len(results)}

\* C14: is_valid(strict) returns True exactly when validate() reports no entry of
\* severity 'error' and, if strict is true, no entry of severity 'warning' either;
\* entries of severity 'default' never make the model invalid, in either mode
C14_IsValidBySeverity ==
    dcall.op = "Model.is_valid" =>
        dcall.value = (/\ "error" \notin Severities(dcall.results)
                       /\ dcall.strict => "warning" \notin Severities(dcall.results))

\* the end-to-end scenario: cube sales, date with the levels year and month, product
\* with the level product, and nothing changed after construction
Scenario ==
    /\ dmeta["date"].levels = <<"year", "month">>
    /\ dmeta["date"].default_hierarchy_name = None
    /\ ~dmeta["product"].attributes.some
    /\ \A o \in 1..Len(dheap) :
          /\ dheap[o].kind = "Dimension" => dheap[o].hierarchies # <<>>
          /\ dheap[o].kind = "Model" => dheap[o].cubes # <<>>

\* the only level of product is given an empty attribute list
EmptyAttributeList ==
    dmeta["product"].attributes.some /\ dmeta["product"].attributes.v = <<>>

ProductCreated == dcall.op = "create_dimension" /\ dcall.name = "product"

\* C20 as stated: the scenario model is valid; with an empty attribute list for the
\* only level of product the construction succeeds and the model is not valid
C20_Original ==
    /\ (Scenario /\ dcall.op = "Model.is_valid" /\ ~dcall.strict) => dcall.value
    /\ (EmptyAttributeList /\ ProductCreated) => dcall.raised = ""
    /\ (EmptyAttributeList /\ dcall.op = "Model.is_valid" /\ ~dcall.strict)
          => ~dcall.value

\* C20: is_valid(strict=False) is True for the model of the scenario; with an empty
\* attribute list for the only level of product, the construction of the dimension
\* raises ModelError, and neither the dimension nor a model of it ever exists
C20_ScenarioValid ==
    /\ (Scenario /\ dcall.op = "Model.is_valid" /\ ~dcall.strict) => dcall.value
    /\ EmptyAttributeList =>
          /\ dpool["product"] = 0
          /\ \A o \in 1..Len(dheap) : dheap[o].kind # "Model"
          /\ ProductCreated => dcall.raised = "ModelError"

\* the construction of product with an empty attribute list has raised, date being built
C20_Witness ==
    /\ EmptyAttributeList
    /\ ProductCreated
    /\ dcall.raised = "ModelError"
    /\ dpool["date"] # 0

(***************************************************************************)
(* Part 8.  Cube.__init__ and Cube.validate.                               *)
(*                                                                         *)
(* dmeta holds the measures and details arguments of the constructor of    *)
(* the cube "sales": absent, or a list whose items are names, Attribute    *)
(* objects or objects of another class (given by the string str() returns).*)
(***************************************************************************)
MaxMeasures == 2

\* the items of a measures or details list
AttributeItems ==
    {[type |-> "str", name |-> "amount"], [type |-> "str", name |-> "record"],
     [type |-> "Attribute", name |-> "amount"], [type |-> "object", name |-> "amount"]}

AttributeLists ==
    {Absent} \cup {Some(s) : s \in UNION {[1..n -> AttributeItems] : n \in 0..MaxMeasures}}

\* RECORD_COUNT_MEASURE
RECORD_COUNT_MEASURE ==
    [type |-> "dict", name |-> "record", label |-> "Count",
     aggregations |-> <<"count", "sma">>]

\* coalesce_attribute(obj): a name or a dictionary becomes a new Attribute, anything
\* else is returned as it is
coalesce_attribute(obj) ==
    IF obj.type = "str"
    THEN [kind |-> "Attribute", name |-> obj.name, label |-> None, description |-> None,
          dimension |-> 0, aggregations |-> None]
    ELSE IF obj.type = "dict"
    THEN [kind |-> "Attribute", name |-> obj.name, label |-> obj.label,
          description |-> None, dimension |-> 0, aggregations |-> obj.aggregations]
    ELSE IF obj.type = "Attribute"
    THEN [kind |-> "Attribute", name |-> obj.name, label |-> None, description |-> None,
          dimension |-> 0, aggregations |-> None]
    ELSE [kind |-> "object", name |-> obj.name]

\* attribute_list(attributes)
attribute_list(attributes) ==
    IF ~NonEmpty(attributes) THEN <<>>
    ELSE [i \in 1..Len(attributes.v) |-> coalesce_attribute(attributes.v[i])]

\* a plausible slip: an empty list of measures is kept as it is
no_measures_given(measures) == ~measures.some

\* "if not measures"
no_measures(measures) == ~NonEmpty(measures)

\* Cube.__init__(name, measures=measures, details=details): the heap with the
\* measures, the details and the new Cube as its last object
Cube_init(h, name, measures, details) ==
    LET ms == attribute_list(IF no_measures(measures)
                             THEN Some(<<RECORD_COUNT_MEASURE>>) ELSE measures)
        ds == attribute_list(details)
    IN h \o ms \o ds
         \o <<[kind |-> "Cube", name |-> name, label |-> None, description |-> None,
               measures |-> [i \in 1..Len(ms) |-> Len(h) + i],
               details |-> [i \in 1..Len(ds) |-> Len(h) + Len(ms) + i],
               dimensions |-> <<>>]>>

CubeInit ==
    /\ \E ms \in AttributeLists, ds \in AttributeLists :
          dmeta = [n \in {"sales"} |-> [measures |-> ms, details |-> ds]]
    /\ dheap = <<>>
    /\ dpool = <<>>
    /\ dcall = [op |-> "init"]
    /\ nmut = 0

\* Cube("sales", measures=..., details=...)
NewCube(name) ==
    /\ dheap = <<>>
    /\ dheap' = Cube_init(dheap, name, dmeta[name].measures, dmeta[name].details)
    /\ dcall' = [op |-> "Cube", name |-> name]
    /\ UNCHANGED <<dmeta, dpool, nmut, regVars, hierVars, provVars>>

\* a call of validate on the cube c
CubeValidate(c) ==
    /\ dheap[c].kind = "Cube"
    /\ dcall' = [op |-> "Cube.validate", self |-> c, raised |-> "",
                 results |-> Cube_validate(dheap, c)]
    /\ UNCHANGED <<dmeta, dheap, dpool, nmut, regVars, hierVars, provVars>>

CubeNext ==
    \/ NewCube("sales")
    \/ \E c \in 1..Len(dheap) : CubeValidate(c)

(***************************************************************************)
(* Claims about Cube.__init__ and Cube.validate (SpecCube).                *)
(***************************************************************************)
\* the cube there is, once constructed
TheCube == CHOOSE c \in 1..Len(dheap) : dheap[c].kind = "Cube"

\* C21: a Cube constructed with no measures (none given or an empty list) has exactly
\* one measure, named "record" with the aggregations count and sma; a Cube constructed
\* with a non-empty list of measures has those measures in the given order and no
\* record measure added
C21_DefaultMeasure ==
    dheap # <<>> =>
        LET given == dmeta["sales"].measures
            measures == dheap[TheCube].measures
        IN IF ~given.some \/ given.v = <<>>
           THEN /\ Len(measures) = 1
                /\ dheap[measures[1]].kind = "Attribute"
                /\ dheap[measures[1]].name = "record"
                /\ dheap[measures[1]].aggregations = <<"count", "sma">>
           ELSE /\ Len(measures) = Len(given.v)
                /\ \A i \in 1..Len(measures) :
                      /\ dheap[measures[i]].name = given.v[i].name
                      /\ (dheap[measures[i]].kind = "Attribute")
                            = (given.v[i].type # "object")

\* a cube built from an empty list of measures
C21_Witness ==
    /\ dheap # <<>>
    /\ dmeta["sales"].measures = Some(<<>>)
    /\ dheap[dheap[TheCube].measures[1]].name = "record"

\* the names (str) of the objects of a list, and whether two positions hold one name
StrsOf(h, objs) == [i \in 1..Len(objs) |-> h[objs[i]].name]

Repeats(names) == \E i, j \in 1..Len(names) : i # j /\ names[i] = names[j]

\* C26: Cube.validate reports an 'error' entry exactly when a measure or a detail is
\* not an Attribute, two measures share a name, two details share a name, or a detail
\* has the name of a measure; it reports nothing otherwise, and it never raises
C26_CubeValidate ==
    dcall.op = "Cube.validate" =>
        LET measures == dheap[dcall.self].measures
            details == dheap[dcall.self].details
            faulty ==
                \/ \E o \in SeqRange(measures) \cup SeqRange(details) :
                      dheap[o].kind # "Attribute"
                \/ Repeats(StrsOf(dheap, measures))
                \/ Repeats(StrsOf(dheap, details))
                \/ SeqRange(StrsOf(dheap, measures))
                      \cap SeqRange(StrsOf(dheap, details)) # {}
        IN /\ dcall.raised = ""
           /\ faulty <=> "error" \in Severities(dcall.results)
           /\ ~faulty => dcall.results = <<>>

\* validate has reported a detail that has the name of a measure, all objects being
\* Attributes and no name repeated within the measures or within the details
C26_Witness ==
    /\ dcall.op = "Cube.validate"
    /\ dcall.results = <<"error">>
    /\ \A o \in 1..Len(dheap) : dheap[o].kind \in {"Attribute", "Cube"}
    /\ ~Repeats(StrsOf(dheap, dheap[dcall.self].measures))
    /\ ~Repeats(StrsOf(dheap, dheap[dcall.self].details))

(***************************************************************************)
(* Part 9.  Hierarchy.levels_for_depth, next_level and previous_level.     *)
(*                                                                         *)
(* hobj is a Hierarchy as in Part 2.  A depth is None or a number; a level *)
(* argument is None, a level name or a Level object, of which the methods  *)
(* read the name (str).  A returned level is given by its name.            *)
(***************************************************************************)
NoDepth == [some |-> FALSE, v |-> 0]

Depths == {NoDepth} \cup {[some |-> TRUE, v |-> d] : d \in 0..(MaxPath + 1)}

NoLevel == [form |-> "none", name |-> ""]

LevelArgs == {NoLevel} \cup [form : {"name", "object"}, name : LevelNames]

\* a plausible slip: drilldown does not extend the depth
no_extend(drilldown) == 0

\* "extend = 1 if drilldown else 0"
extend(drilldown) == IF drilldown THEN 1 ELSE 0

\* Hierarchy.levels_for_depth(depth, drilldown)
levels_for_depth(ls, depth, drilldown) ==
    LET d == IF depth.some THEN depth.v ELSE 0
    IN IF d + extend(drilldown) > Len(ls) THEN Raised("HierarchyError")
       ELSE Returned(Slice0(ls, d + extend(drilldown)))

\* Hierarchy.next_level(level)
next_level(ls, level) ==
    IF level.form = "none" THEN Returned(ls[1])
    ELSE LET index == IndexOf(ls, level.name)
         IN IF index = -1 THEN Raised("ValueError")
            ELSE IF index + 1 >= Len(ls) THEN Returned(None)
            ELSE Returned(ls[index + 2])

\* a plausible slip: the second level has no previous level either
is_first_or_second(index) == index <= 1

\* "if index == 0"
is_first(index) == index = 0

\* Hierarchy.previous_level(level)
previous_level(ls, level) ==
    IF level.form = "none" THEN Returned(None)
    ELSE LET index == IndexOf(ls, level.name)
         IN IF index = -1 THEN Raised("ValueError")
            ELSE IF is_first(index) THEN Returned(None)
            ELSE Returned(ls[index])

\* a returned level, passed on as an argument
AsLevelArg(v) == IF v = None THEN NoLevel ELSE [form |-> "object", name |-> v]

\* a hierarchy and the arguments of one call on it
NavInit ==
    /\ hobj \in HierarchyObjects
    /\ hargs \in [depth : Depths, drilldown : BOOLEAN, level : LevelArgs]
    /\ hcall = [op |-> "init"]

LevelsForDepth ==
    /\ hcall.op = "init"
    /\ hcall' = [op |-> "levels_for_depth",
                 result |-> levels_for_depth(hobj.levels, hargs.depth, hargs.drilldown)]
    /\ UNCHANGED <<hobj, hargs, regVars, provVars, dimVars>>

NextLevel ==
    /\ hcall.op = "init"
    /\ hcall' = [op |-> "next_level", result |-> next_level(hobj.levels, hargs.level)]
    /\ UNCHANGED <<hobj, hargs, regVars, provVars, dimVars>>

PreviousLevel ==
    /\ hcall.op = "init"
    /\ hcall' = [op |-> "previous_level",
                 result |-> previous_level(hobj.levels, hargs.level)]
    /\ UNCHANGED <<hobj, hargs, regVars, provVars, dimVars>>

\* previous_level(next_level(level))
NextThenPrevious ==
    /\ hcall.op = "init"
    /\ \E next \in {next_level(hobj.levels, hargs.level)} :
          hcall' = [op |-> "previous_of_next",
                    result |-> IF next.raised # "" THEN next
                               ELSE previous_level(hobj.levels, AsLevelArg(next.value))]
    /\ UNCHANGED <<hobj, hargs, regVars, provVars, dimVars>>

NavNext ==
    \/ LevelsForDepth
    \/ NextLevel
    \/ PreviousLevel
    \/ NextThenPrevious

Position == IndexOf(hobj.levels, hargs.level.name) + 1

\* C23: next_level(None) is the first level, next_level(Lk) is Lk+1 or, for the last
\* level, no level; previous_level(None) and previous_level(L0) are no level and
\* previous_level(Lk) is Lk-1; previous_level(next_level(Lk)) is Lk for every level but
\* the last, given as an object or by name
C23_NextPrevious ==
    LET n == Len(hobj.levels)
        k == Position
    IN /\ (hcall.op = "next_level" /\ hargs.level = NoLevel)
             => hcall.result = Returned(hobj.levels[1])
       /\ (hcall.op = "next_level" /\ k > 0)
             => hcall.result = Returned(IF k < n THEN hobj.levels[k + 1] ELSE None)
       /\ (hcall.op = "previous_level" /\ hargs.level = NoLevel)
             => hcall.result = Returned(None)
       /\ (hcall.op = "previous_level" /\ k > 0)
             => hcall.result = Returned(IF k > 1 THEN hobj.levels[k - 1] ELSE None)
       /\ (hcall.op = "previous_of_next" /\ k > 0 /\ k < n)
             => hcall.result = Returned(hobj.levels[k])

\* the round trip from the second of three levels, given by name
C23_Witness ==
    /\ hcall.op = "previous_of_next"
    /\ Len(hobj.levels) = 3
    /\ hargs.level = [form |-> "name", name |-> hobj.levels[2]]
    /\ hcall.result = Returned(hobj.levels[2])

(***************************************************************************)
(* Part 10.  Dimension.__init__ on Level objects, and the ownership of     *)
(* attributes and hierarchies.                                             *)
(*                                                                         *)
(* The dimension "date" is constructed directly from Level objects, each   *)
(* made of a name and attribute names; "fiscal" is built by                *)
(* create_dimension and may name "date" as its template.                   *)
(***************************************************************************)
\* the levels given to Dimension("date", levels): year and month, each with or
\* without a second attribute "label"
LevelDefinitions ==
    LET year == {[name |-> "year", attributes |-> <<"year">>],
                 [name |-> "year", attributes |-> <<"year", "label">>]}
        month == {[name |-> "month", attributes |-> <<"month">>],
                  [name |-> "month", attributes |-> <<"month", "label">>]}
    IN {<<y>> : y \in year} \cup {<<y, m>> : y \in year, m \in month}

\* Level(name, attributes): the heap with the attributes and the new Level as its last
\* object; key and order_attribute are the first attribute, label_attribute the second
\* one if there is one
Level_init(h, name, attributes) ==
    IF no_attributes(attributes) THEN [raised |-> "ModelError", heap |-> h]
    ELSE LET attrs == [i \in 1..Len(attributes) |-> Len(h) + i]
         IN [raised |-> "",
             heap |-> Append(new_attributes(h, attributes, Len(attributes)),
                             [kind |-> "Level", name |-> name, label |-> None,
                              description |-> None, attributes |-> attrs,
                              key |-> attrs[1],
                              label_attribute |->
                                  IF Len(attrs) > 1 THEN attrs[2] ELSE attrs[1],
                              order_attribute |-> attrs[1]])]

\* the Level objects of the definitions defs[1..n]
RECURSIVE Levels_init(_, _, _)
Levels_init(h, defs, n) ==
    IF n = 0 THEN [raised |-> "", heap |-> h, ids |-> <<>>]
    ELSE With(Levels_init(h, defs, n - 1), LAMBDA before :
         IF before.raised # "" THEN before
         ELSE With(Level_init(before.heap, defs[n].name, defs[n].attributes), LAMBDA l :
              IF l.raised # "" THEN [raised |-> l.raised, heap |-> h, ids |-> <<>>]
              ELSE [raised |-> "", heap |-> l.heap,
                    ids |-> Append(before.ids, Len(l.heap))]))

\* Dimension(name, levels=[Level(...), ...])
Dimension_of_levels(h, name, defs) ==
    With(Levels_init(h, defs, Len(defs)), LAMBDA levels :
    IF levels.raised # "" THEN [raised |-> levels.raised, heap |-> h, dim |-> 0]
    ELSE With(Dimension_init(levels.heap, name, levels.ids, <<>>, None, None), LAMBDA d :
         IF d.raised # "" THEN [raised |-> d.raised, heap |-> h, dim |-> 0] ELSE d))

\* the attributes Dimension.validate visits, in order
visited_attributes(h, d) ==
    Flatten([i \in 1..Len(h[d].levels) |-> h[h[d].levels[i]].attributes],
            Len(h[d].levels))

\* the attributes for which Dimension.validate reports "Duplicate attribute"
reported_duplicates(h, d) ==
    {visited_attributes(h, d)[k] : k \in {k \in 1..Len(visited_attributes(h, d)) :
                                             is_duplicate(h, visited_attributes(h, d), k)}}

OwnInit ==
    /\ \E levels \in LevelDefinitions, md \in Metadata({"date"}) :
          dmeta = [n \in {"date", "fiscal"} |->
                      IF n = "date" THEN [levels |-> levels] ELSE md]
    /\ dheap = <<>>
    /\ dpool = [n \in {"date", "fiscal"} |-> 0]
    /\ dcall = [op |-> "init"]
    /\ nmut = 0

\* the caller constructs the dimension n from Level objects and adds it to the pool
NewDimension(n) ==
    /\ dpool[n] = 0
    /\ \E r \in {Dimension_of_levels(dheap, n, dmeta[n].levels)} :
          /\ dheap' = r.heap
          /\ dpool' = IF r.raised = "" THEN [dpool EXCEPT ![n] = r.dim] ELSE dpool
          /\ dcall' = [op |-> "Dimension", name |-> n, raised |-> r.raised]
    /\ UNCHANGED <<dmeta, nmut, regVars, hierVars, provVars>>

\* a call of validate on the dimension d
DimensionValidate(d) ==
    /\ dheap[d].kind = "Dimension"
    /\ dcall' = [op |-> "Dimension.validate", self |-> d,
                 results |-> Dimension_validate(dheap, d),
                 duplicates |-> reported_duplicates(dheap, d)]
    /\ UNCHANGED <<dmeta, dheap, dpool, nmut, regVars, hierVars, provVars>>

\* Model(dimensions=[d]), the first model made
NewModelOf(d) ==
    /\ dheap[d].kind = "Dimension"
    /\ \A o \in 1..Len(dheap) : dheap[o].kind # "Model"
    /\ dheap' = Append(dheap, [kind |-> "Model", name |-> "model", label |-> None,
                               description |-> None, locale |-> None, cubes |-> <<>>,
                               dimensions |-> <<d>>])
    /\ dcall' = [op |-> "Model", with_cube |-> FALSE]
    /\ UNCHANGED <<dmeta, dpool, nmut, regVars, hierVars, provVars>>

OwnNext ==
    \/ NewDimension("date")
    \/ CreateDimension("fiscal")
    \/ \E d \in 1..Len(dheap) : DimensionValidate(d)
    \/ \E d \in 1..Len(dheap) : NewModelOf(d)
    \/ \E m \in 1..Len(dheap), strict \in BOOLEAN : IsValid(m, strict)

(***************************************************************************)
(* Claims about ownership and duplicate attributes (SpecOwn).              *)
(***************************************************************************)
DimensionsOf(h) == {d \in 1..Len(h) : h[d].kind = "Dimension"}

\* C24: after a Dimension is constructed, directly or by create_dimension, every
\* attribute of every one of its levels refers to that Dimension and so does every
\* one of its hierarchies; this holds for a template as well as for what was built
\* from it
C24_BackReferences ==
    \A d \in DimensionsOf(dheap) :
        /\ \A a \in AttributesOf(dheap, dheap[d].levels) : dheap[a].dimension = d
        /\ \A hier \in SeqRange(dheap[d].hierarchies) : dheap[hier].dimension = d

\* the dimension d has two different levels that hold an attribute of one name
SharesAttributeName(h, d) ==
    \E i, j \in 1..Len(h[d].levels) :
        /\ i # j
        /\ SeqRange(StrsOf(h, h[h[d].levels[i]].attributes))
              \cap SeqRange(StrsOf(h, h[h[d].levels[j]].attributes)) # {}

\* C25: the construction of a Dimension of which two levels hold an attribute of the
\* same name does not fail, validate() on it reports an 'error' entry for the
\* duplicated attribute, and is_valid() is False for a model holding the dimension
C25_DuplicateReported ==
    /\ (dcall.op = "Dimension" /\ dmeta["date"].levels \in
            {ls \in LevelDefinitions :
                Len(ls) = 2 /\ Len(ls[1].attributes) = 2 /\ Len(ls[2].attributes) = 2})
          => dcall.raised = ""
    /\ (dcall.op = "Dimension.validate" /\ SharesAttributeName(dheap, dcall.self))
          => /\ "error" \in Severities(dcall.results)
             /\ dcall.duplicates # {}
    /\ (dcall.op = "Model.is_valid"
          /\ \E d \in SeqRange(dheap[dcall.self].dimensions) :
                SharesAttributeName(dheap, d))
          => ~dcall.value

(***************************************************************************)
(* Claims about the copy Model.localize returns (SpecLoc).                 *)
(***************************************************************************)
\* C29: in the model returned by Model.localize every attribute of every dimension
\* refers to the Dimension object of the returned copy, so that validate() on the copy
\* reports no error when the original had none
C29_LocalizedOwnership ==
    (dcall.op = "Model.localize" /\ dcall.raised = "") =>
        /\ \A d \in SeqRange(dheap[dcall.model].dimensions) :
              \A a \in AttributesOf(dheap, dheap[d].levels) : dheap[a].dimension = d
        /\ "error" \notin Severities(Model_validate(dheap, dcall.self))
              => "error" \notin Severities(Model_validate(dheap, dcall.model))

Init == RegInit /\ HierIdle /\ ProvIdle /\ DimIdle

Next == RegNext

Spec == Init /\ [][Next]_vars

InitHier == RegInit /\ HierInit /\ ProvIdle /\ DimIdle

SpecHier == InitHier /\ [][HierNext]_vars

InitProv == RegInit /\ HierIdle /\ ProvInit /\ DimIdle

SpecProv == InitProv /\ [][ProvNext]_vars

InitDim == RegInit /\ HierIdle /\ ProvIdle /\ DimInit

SpecDim == InitDim /\ [][DimNext]_vars

InitFlat == RegInit /\ HierIdle /\ ProvIdle /\ FlatInit

SpecFlat == InitFlat /\ [][FlatNext]_vars

InitLoc == RegInit /\ HierIdle /\ ProvIdle /\ LocInit

SpecLoc == InitLoc /\ [][LocNext]_vars

InitRef == RegInit /\ RefInit /\ ProvIdle /\ DimIdle

SpecRef == InitRef /\ [][RefNext]_vars

InitAgg == RegInit /\ AggInit /\ ProvIdle /\ DimIdle

SpecAgg == InitAgg /\ [][AggNext]_vars

InitValid == RegInit /\ HierIdle /\ ProvIdle /\ ValidInit

SpecValid == InitValid /\ [][ValidNext]_vars

InitCube == RegInit /\ HierIdle /\ ProvIdle /\ CubeInit

SpecCube == InitCube /\ [][CubeNext]_vars

InitNav == RegInit /\ NavInit /\ ProvIdle /\ DimIdle

SpecNav == InitNav /\ [][NavNext]_vars

InitOwn == RegInit /\ HierIdle /\ ProvIdle /\ OwnInit

SpecOwn == InitOwn /\ [][OwnNext]_vars

====
